---------------------------- MODULE Spec2Model ----------------------------
(***************************************************************************)
(* Privacy Risk & Forensic Timeline Analyzer (src/src/risk_analyzer.py).   *)
(*                                                                         *)
(* A text is a sequence of one-character strings, so that lower-casing,    *)
(* substring containment, stripping, splitting and datetime parsing are    *)
(* computed the way the Python code computes them.  A metadata map is a    *)
(* sequence of fields <<key, value>> in insertion order (a Python dict).   *)
(***************************************************************************)
EXTENDS Integers, Sequences, FiniteSets, TLC

\* ------------------------------------------------------------------------
\* Bounds of the model
\* ------------------------------------------------------------------------
\* Largest number of fields of a map a caller builds field by field.
MaxFields == 3

\* The longest batch a caller builds.
MaxEntries == 3

\* The longest timeline a caller hands detect_anomalies.
MaxEvents == 3

\* ------------------------------------------------------------------------
\* Text primitives (Python str)
\* ------------------------------------------------------------------------
UpperCase == <<"A","B","C","D","E","F","G","H","I","J","K","L","M",
               "N","O","P","Q","R","S","T","U","V","W","X","Y","Z">>

LowerCase == <<"a","b","c","d","e","f","g","h","i","j","k","l","m",
               "n","o","p","q","r","s","t","u","v","w","x","y","z">>

DigitChars == <<"0","1","2","3","4","5","6","7","8","9">>

Digits == {DigitChars[i] : i \in 1..10}

Whitespace == {" "}

DigitVal(c) == (CHOOSE i \in 1..10 : DigitChars[i] = c) - 1

LowerChar(c) ==
    IF \E i \in 1..26 : UpperCase[i] = c
    THEN LowerCase[CHOOSE i \in 1..26 : UpperCase[i] = c]
    ELSE c

\* str.lower()
lower(t) == [i \in 1..Len(t) |-> LowerChar(t[i])]

\* `kw in t`
Contains(kw, t) ==
    \E i \in 1..(Len(t) - Len(kw) + 1) : SubSeq(t, i, i + Len(kw) - 1) = kw

\* str.strip()
strip(t) ==
    LET idx == {i \in 1..Len(t) : t[i] \notin Whitespace}
    IN  IF idx = {} THEN <<>>
        ELSE SubSeq(t, CHOOSE i \in idx : \A j \in idx : i <= j,
                       CHOOSE i \in idx : \A j \in idx : i >= j)

RECURSIVE ReplaceN(_, _, _, _)
\* str.replace(old, new, count) for a one-character old; count < 0: all.
ReplaceN(t, old, new, count) ==
    IF t = <<>> \/ count = 0 THEN t
    ELSE IF Head(t) = old
         THEN new \o ReplaceN(Tail(t), old, new, count - 1)
         ELSE <<Head(t)>> \o ReplaceN(Tail(t), old, new, count)

replace(t, old, new) == ReplaceN(t, old, new, -1)

RECURSIVE IntDigits(_)
IntDigits(n) ==
    IF n < 10 THEN <<DigitChars[n + 1]>>
    ELSE IntDigits(n \div 10) \o <<DigitChars[(n % 10) + 1]>>

\* A value is a text, an int or None: [kind, s, n].
StrVal(s) == [kind |-> "str", s |-> s, n |-> 0]

IntVal(n) == [kind |-> "int", s |-> <<>>, n |-> n]

NoneVal == [kind |-> "none", s |-> <<>>, n |-> 0]

\* str(value)
str(v) ==
    CASE v.kind = "str" -> v.s
      [] v.kind = "int" -> IF v.n < 0 THEN <<"-">> \o IntDigits(-v.n)
                           ELSE IntDigits(v.n)
      [] OTHER -> <<"N","o","n","e">>


\* ------------------------------------------------------------------------
\* Pattern matching (the regular expressions of re and of strptime)
\* ------------------------------------------------------------------------
\* A token matches between min and max characters of cls, greedily with
\* backtracking; a capturing token also needs its number within lo..hi.
Tok(cls, min, max) ==
    [cls |-> cls, min |-> min, max |-> max, cap |-> FALSE, lo |-> 0, hi |-> 0]

Num(min, max, lo, hi) ==
    [cls |-> Digits, min |-> min, max |-> max, cap |-> TRUE, lo |-> lo, hi |-> hi]

Lit(c) == Tok({c}, 1, 1)

RECURSIVE ToInt(_)
ToInt(ds) ==
    IF ds = <<>> THEN 0
    ELSE 10 * ToInt(SubSeq(ds, 1, Len(ds) - 1)) + DigitVal(ds[Len(ds)])

\* Number of characters of cls at the front of t[i..], at most max.
RECURSIVE Run(_, _, _, _)
Run(t, i, cls, max) ==
    IF max = 0 \/ i > Len(t) \/ t[i] \notin cls THEN 0
    ELSE 1 + Run(t, i + 1, cls, max - 1)

NoMatch == [ok |-> FALSE, caps |-> <<>>]

RECURSIVE MatchAt(_, _, _, _)
RECURSIVE TryLen(_, _, _, _, _)
\* The first way (longest first) for the head token to take n characters.
TryLen(toks, t, i, full, n) ==
    LET tk   == Head(toks)
        txt  == SubSeq(t, i, i + n - 1)
        good == ~tk.cap \/ (ToInt(txt) >= tk.lo /\ ToInt(txt) <= tk.hi)
        rest == MatchAt(Tail(toks), t, i + n, full)
    IN  IF n < tk.min THEN NoMatch
        ELSE IF good /\ rest.ok
             THEN [ok |-> TRUE,
                   caps |-> IF tk.cap THEN <<ToInt(txt)>> \o rest.caps
                            ELSE rest.caps]
             ELSE TryLen(toks, t, i, full, n - 1)

\* re.match of the token list at position i; full: the pattern ends in $.
MatchAt(toks, t, i, full) ==
    IF toks = <<>>
    THEN [ok |-> (~full \/ i > Len(t)), caps |-> <<>>]
    ELSE TryLen(toks, t, i, full, Run(t, i, Head(toks).cls, Head(toks).max))

\* ------------------------------------------------------------------------
\* datetime
\* ------------------------------------------------------------------------
\* A datetime: naive (aware = FALSE) or with a UTC offset in minutes.
NoDatetime ==
    [ok |-> FALSE, y |-> 0, mo |-> 0, d |-> 0, h |-> 0, mi |-> 0, s |-> 0,
     aware |-> FALSE, off |-> 0]

IsLeap(y) == (y % 4 = 0 /\ y % 100 # 0) \/ y % 400 = 0

DaysInMonth(y, mo) ==
    IF mo = 2 THEN (IF IsLeap(y) THEN 29 ELSE 28)
    ELSE IF mo \in {4, 6, 9, 11} THEN 30 ELSE 31

\* datetime(y, mo, d, h, mi, s): the constructor raises ValueError (here:
\* NoDatetime) for a field out of range.
MakeDatetime(y, mo, d, h, mi, s, aware, off) ==
    IF /\ y >= 1 /\ y <= 9999 /\ mo >= 1 /\ mo <= 12
       /\ d >= 1 /\ d <= DaysInMonth(y, mo)
       /\ h >= 0 /\ h <= 23 /\ mi >= 0 /\ mi <= 59 /\ s >= 0 /\ s <= 59
    THEN [ok |-> TRUE, y |-> y, mo |-> mo, d |-> d, h |-> h, mi |-> mi,
          s |-> s, aware |-> aware, off |-> off]
    ELSE NoDatetime

\* Days since 0001-01-01 (date.toordinal).
Ordinal(y, mo, d) ==
    LET py  == y - 1
        dbm == [m \in 1..12 |->
                  CASE m = 1 -> 0 [] m = 2 -> 31 [] m = 3 -> 59 [] m = 4 -> 90
                    [] m = 5 -> 120 [] m = 6 -> 151 [] m = 7 -> 181
                    [] m = 8 -> 212 [] m = 9 -> 243 [] m = 10 -> 273
                    [] m = 11 -> 304 [] OTHER -> 334]
    IN  py * 365 + py \div 4 - py \div 100 + py \div 400
        + dbm[mo] + (IF mo > 2 /\ IsLeap(y) THEN 1 ELSE 0) + d

\* The place on the time line as <<day, minute of the day, second>>: local
\* time for a naive datetime, UTC for an aware one.
Instant(dt) ==
    LET minutes == dt.h * 60 + dt.mi - dt.off
    IN  <<Ordinal(dt.y, dt.mo, dt.d) + minutes \div 1440, minutes % 1440, dt.s>>

\* dt1 < dt2 raises TypeError for a naive and an aware operand.
Comparable(a, b) == a.aware = b.aware

\* dt1 < dt2, both naive or both aware.
DtLess(a, b) ==
    LET x == Instant(a)
        y == Instant(b)
    IN  \/ x[1] < y[1]
        \/ x[1] = y[1] /\ x[2] < y[2]
        \/ x[1] = y[1] /\ x[2] = y[2] /\ x[3] < y[3]

\* datetime.fromisoformat, the forms every CPython since 3.7 accepts:
\* YYYY-MM-DD[*HH[:MM[:SS]][(+|-)HH:MM]], * being any one character.
IsoDate == <<Num(4, 4, 0, 9999), Lit("-"), Num(2, 2, 0, 99), Lit("-"),
             Num(2, 2, 0, 99)>>

IsoTimes == << <<Num(2, 2, 0, 99)>>,
               <<Num(2, 2, 0, 99), Lit(":"), Num(2, 2, 0, 99)>>,
               <<Num(2, 2, 0, 99), Lit(":"), Num(2, 2, 0, 99), Lit(":"),
                 Num(2, 2, 0, 99)>> >>

IsoOffset == <<Num(2, 2, 0, 23), Lit(":"), Num(2, 2, 0, 59)>>

fromisoformat(t) ==
    LET n     == Len(t)
        date  == MatchAt(IsoDate, SubSeq(t, 1, 10), 1, TRUE)
        tstr  == SubSeq(t, 12, n)
        signs == {i \in 1..Len(tstr) : tstr[i] \in {"+", "-"}}
        tzpos == IF signs = {} THEN Len(tstr) + 1
                 ELSE CHOOSE i \in signs : \A j \in signs : i <= j
        core  == SubSeq(tstr, 1, tzpos - 1)
        tz    == MatchAt(IsoOffset, SubSeq(tstr, tzpos + 1, Len(tstr)), 1, TRUE)
        hits  == {k \in 1..3 : MatchAt(IsoTimes[k], core, 1, TRUE).ok}
        tm    == MatchAt(IsoTimes[CHOOSE k \in hits : TRUE], core, 1, TRUE).caps
        hms   == tm \o <<0, 0>>
        aware == signs # {}
        off   == IF ~aware THEN 0
                 ELSE (IF tstr[tzpos] = "-" THEN -1 ELSE 1)
                      * (tz.caps[1] * 60 + tz.caps[2])
    IN  IF n < 10 \/ ~date.ok THEN NoDatetime
        ELSE IF n = 10
             THEN MakeDatetime(date.caps[1], date.caps[2], date.caps[3],
                               0, 0, 0, FALSE, 0)
        ELSE IF hits = {} \/ (aware /\ ~tz.ok) THEN NoDatetime
        ELSE MakeDatetime(date.caps[1], date.caps[2], date.caps[3],
                          hms[1], hms[2], hms[3], aware, off)

\* The directives of strptime, as the regular expressions of _strptime.
DirY == Num(4, 4, 0, 9999)

Dirm == Num(1, 2, 1, 12)

Dird == Num(1, 2, 1, 31)

DirH == Num(1, 2, 0, 23)

DirM == Num(1, 2, 0, 59)

DirS == Num(1, 2, 0, 61)

Blank == Tok(Whitespace, 1, 64)

\* formats[1..6] of _parse_datetime (formats[0], None, is fromisoformat);
\* ymd tells the order of the date fields.
formats ==
    << [toks |-> <<DirY, Lit("-"), Dirm, Lit("-"), Dird, Blank,
                   DirH, Lit(":"), DirM, Lit(":"), DirS>>, ymd |-> TRUE],
       [toks |-> <<DirY, Lit("-"), Dirm, Lit("-"), Dird, Blank,
                   DirH, Lit(":"), DirM>>, ymd |-> TRUE],
       [toks |-> <<Dird, Lit("-"), Dirm, Lit("-"), DirY, Blank,
                   DirH, Lit(":"), DirM, Lit(":"), DirS>>, ymd |-> FALSE],
       [toks |-> <<Dird, Lit("-"), Dirm, Lit("-"), DirY, Blank,
                   DirH, Lit(":"), DirM>>, ymd |-> FALSE],
       [toks |-> <<DirY, Lit("-"), Dirm, Lit("-"), Dird>>, ymd |-> TRUE],
       [toks |-> <<Dird, Lit("-"), Dirm, Lit("-"), DirY>>, ymd |-> FALSE] >>

\* datetime.strptime(t, fmt): NoDatetime where it raises ValueError.
strptime(t, fmt) ==
    LET m == MatchAt(fmt.toks, t, 1, TRUE)
        c == m.caps \o <<0, 0, 0>>
    IN  IF ~m.ok THEN NoDatetime
        ELSE MakeDatetime(IF fmt.ymd THEN c[1] ELSE c[3], c[2],
                          IF fmt.ymd THEN c[3] ELSE c[1],
                          c[4], c[5], c[6], FALSE, 0)

\* ^\d{4}:\d{2}:\d{2}\s+\d{2}:\d{2}:\d{2}$
ExifPattern ==
    <<Tok(Digits, 4, 4), Lit(":"), Tok(Digits, 2, 2), Lit(":"),
      Tok(Digits, 2, 2), Blank, Tok(Digits, 2, 2), Lit(":"),
      Tok(Digits, 2, 2), Lit(":"), Tok(Digits, 2, 2)>>

RECURSIVE TryFormats(_, _)
TryFormats(t, k) ==
    IF k > Len(formats) THEN NoDatetime
    ELSE LET r == strptime(t, formats[k])
         IN  IF r.ok THEN r ELSE TryFormats(t, k + 1)

\* _parse_datetime(value): NoDatetime stands for None.
parse_datetime(v) ==
    LET text  == strip(str(v))
        norm1 == replace(replace(text, "Z", <<"+","0","0",":","0","0">>),
                         "/", <<"-">>)
        normalized == IF MatchAt(ExifPattern, norm1, 1, TRUE).ok
                      THEN ReplaceN(norm1, ":", <<"-">>, 2)
                      ELSE norm1
        iso   == fromisoformat(normalized)
    IN  IF v.kind = "none" \/ text = <<>> THEN NoDatetime
        ELSE IF iso.ok THEN iso
        ELSE TryFormats(normalized, 1)

\* ------------------------------------------------------------------------
\* PrivacyForensicAnalyzer
\* ------------------------------------------------------------------------
\* A message: a fixed text, or an f-string with its arguments.
Msg(text) == [text |-> text, args |-> <<>>]

RISK_LEVELS == << <<0, 29, "LOW">>, <<30, 64, "MEDIUM">>, <<65, 100, "HIGH">> >>

gps_keys == <<<<"g","p","s">>, <<"l","a","t","i","t","u","d","e">>, <<"l","o","n","g","i","t","u","d","e">>, <<"l","a","t">>, <<"l","o","n">>, <<"l","o","c","a","t","i","o","n">>>>

\* self.rules, in the order of __init__; checker "gps" is _has_gps_coordinates,
\* checker "any_key" is _has_any_key with the rule's keywords.
rules ==
    << [name |-> "gps_coordinates", score |-> 30,
        reason |-> "GPS or precise location metadata is present.",
        checker |-> "gps", keywords |-> <<>>],
       [name |-> "author_identity", score |-> 18,
        reason |-> "Author/user identity metadata is present.",
        checker |-> "any_key",
        keywords |-> <<<<"a","u","t","h","o","r">>, <<"c","r","e","a","t","o","r">>, <<"o","w","n","e","r">>, <<"u","s","e","r">>,
                       <<"l","a","s","t"," ","m","o","d","i","f","i","e","d"," ","b","y">>>>],
       [name |-> "device_information", score |-> 18,
        reason |-> "Device or camera-identifying information is present.",
        checker |-> "any_key",
        keywords |-> <<<<"d","e","v","i","c","e">>, <<"c","a","m","e","r","a">>, <<"m","o","d","e","l">>, <<"s","e","r","i","a","l">>, <<"i","m","e","i">>, <<"m","a","k","e">>>>],
       [name |-> "editing_traces", score |-> 15,
        reason |-> "Software/editor processing traces are present.",
        checker |-> "any_key",
        keywords |-> <<<<"s","o","f","t","w","a","r","e">>, <<"a","p","p","l","i","c","a","t","i","o","n">>, <<"p","r","o","d","u","c","e","r">>, <<"e","d","i","t","o","r">>,
                       <<"h","i","s","t","o","r","y">>, <<"t","o","o","l">>>>],
       [name |-> "hidden_blocks", score |-> 20,
        reason |-> "Hidden/embedded metadata blocks (XMP/EXIF/IPTC/MakerNote) detected.",
        checker |-> "any_key",
        keywords |-> <<<<"x","m","p">>, <<"i","p","t","c">>, <<"e","x","i","f">>, <<"m","a","k","e","r","n","o","t","e">>, <<"t","h","u","m","b","n","a","i","l">>,
                       <<"p","r","i","v","a","t","e"," ","t","a","g">>>>] >>

\* The analyzer's own state: the list self.rules, which __init__ fills and
\* every call reads.
VARIABLE self_rules

\* A rule a caller appends to self.rules ("add new rules by appending to
\* self.rules") whose checker raises whatever the metadata is.
RaisingRule ==
    [name |-> "custom_rule", score |-> 50,
     reason |-> "Custom indicator is present.",
     checker |-> "raises", keywords |-> <<>>]

\* any(token in text for token in tokens)
AnyIn(tokens, text) == \E k \in 1..Len(tokens) : Contains(tokens[k], text)

\* has_any_key looking for the first letter of a keyword only.
has_any_key_first_letter(metadata, keywords) ==
    \E i \in 1..Len(metadata), k \in 1..Len(keywords) :
        \/ Contains(<<keywords[k][1]>>, lower(metadata[i][1]))
        \/ Contains(<<keywords[k][1]>>, lower(str(metadata[i][2])))

\* _has_any_key(metadata, keywords)
has_any_key(metadata, keywords) ==
    \E i \in 1..Len(metadata) :
        LET key_l == lower(metadata[i][1])
            val_l == lower(str(metadata[i][2]))
        IN  AnyIn(keywords, key_l) \/ AnyIn(keywords, val_l)

\* [-+]?\d{1,3}\.\d+\s*,\s*[-+]?\d{1,3}\.\d+
coord_pattern ==
    <<Tok({"+", "-"}, 0, 1), Tok(Digits, 1, 3), Lit("."), Tok(Digits, 1, 64),
      Tok(Whitespace, 0, 64), Lit(","), Tok(Whitespace, 0, 64),
      Tok({"+", "-"}, 0, 1), Tok(Digits, 1, 3), Lit("."), Tok(Digits, 1, 64)>>

\* pattern.search(t)
search(pattern, t) == \E i \in 1..Len(t) : MatchAt(pattern, t, i, FALSE).ok

\* _has_gps_coordinates(metadata)
has_gps_coordinates(metadata) ==
    \/ has_any_key(metadata, gps_keys)
    \/ \E i \in 1..Len(metadata) : search(coord_pattern, str(metadata[i][2]))

\* rule.checker(metadata)
checker(rule, metadata) ==
    IF rule.checker = "gps" THEN has_gps_coordinates(metadata)
    ELSE has_any_key(metadata, rule.keywords)

\* rule.checker(metadata) raises an exception.
checker_raises(rule, metadata) == rule.checker = "raises"

key_hints == <<<<"c","a","p","t","u","r","e">>, <<"c","r","e","a","t","e","d">>, <<"c","r","e","a","t","i","o","n">>, <<"m","o","d","i","f","i","e","d">>, <<"e","d","i","t">>,
               <<"t","i","m","e","s","t","a","m","p">>, <<"d","a","t","e">>, <<"t","i","m","e">>, <<"l","a","s","t"," ","s","a","v","e","d">>>>

Candidate(key, value, dt) == [event |-> key, timestamp |-> value, datetime |-> dt]

\* The end of the candidate loops: a value that does not parse is skipped.
candidate_of(key, value, dt_obj) ==
    IF ~dt_obj.ok THEN <<>> ELSE <<Candidate(key, str(value), dt_obj)>>

RECURSIVE extract_timestamp_candidates_any_key(_)
\* extract_timestamp_candidates without the test of the key.
extract_timestamp_candidates_any_key(metadata) ==
    IF metadata = <<>> THEN <<>>
    ELSE candidate_of(Head(metadata)[1], Head(metadata)[2],
                      parse_datetime(Head(metadata)[2]))
         \o extract_timestamp_candidates_any_key(Tail(metadata))

RECURSIVE extract_timestamp_candidates(_)
\* _extract_timestamp_candidates(metadata)
extract_timestamp_candidates(metadata) ==
    IF metadata = <<>> THEN <<>>
    ELSE (IF ~AnyIn(key_hints, lower(Head(metadata)[1])) THEN <<>>
          ELSE candidate_of(Head(metadata)[1], Head(metadata)[2],
                            parse_datetime(Head(metadata)[2])))
         \o extract_timestamp_candidates(Tail(metadata))

\* A fallback_timestamps argument: None, or a map.
NoFallback == [isdict |-> FALSE, items |-> <<>>]

Fallback(items) == [isdict |-> TRUE, items |-> items]

RECURSIVE fallback_candidates_hinted(_)
\* fallback_candidates with the key filter of the metadata path.
fallback_candidates_hinted(items) ==
    IF items = <<>> THEN <<>>
    ELSE (IF ~AnyIn(key_hints, lower(Head(items)[1])) THEN <<>>
          ELSE candidate_of(Head(items)[1], Head(items)[2],
                            parse_datetime(Head(items)[2])))
         \o fallback_candidates_hinted(Tail(items))

RECURSIVE fallback_candidates(_)
\* The loop of build_timeline over fallback_timestamps.items().
fallback_candidates(items) ==
    IF items = <<>> THEN <<>>
    ELSE candidate_of(Head(items)[1], Head(items)[2],
                      parse_datetime(Head(items)[2]))
         \o fallback_candidates(Tail(items))

RECURSIVE Insert_before_equal(_, _)
\* Insert with <= for <: an item goes before the items of its own datetime.
Insert_before_equal(sorted, x) ==
    IF sorted = <<>> THEN <<x>>
    ELSE IF ~DtLess(Head(sorted).datetime, x.datetime) THEN <<x>> \o sorted
    ELSE <<Head(sorted)>> \o Insert_before_equal(Tail(sorted), x)

RECURSIVE Insert(_, _)
\* The place of x in a sorted list: after every item that is not later.
Insert(sorted, x) ==
    IF sorted = <<>> THEN <<x>>
    ELSE IF DtLess(x.datetime, Head(sorted).datetime) THEN <<x>> \o sorted
    ELSE <<Head(sorted)>> \o Insert(Tail(sorted), x)

\* sort leaving the list in the order of the map.
sort_unsorted(timeline) == timeline

RECURSIVE sort(_)
\* list.sort(key = item["datetime"]): stable, ascending.
sort(timeline) ==
    IF timeline = <<>> THEN <<>>
    ELSE Insert(sort(SubSeq(timeline, 1, Len(timeline) - 1)),
                timeline[Len(timeline)])

\* list.sort raises TypeError when it compares a naive with an aware
\* datetime; a comparison sort compares every two items that end up next to
\* each other, so it does as soon as the list holds both kinds.
SortRaises(timeline) ==
    \E i, j \in 1..Len(timeline) :
        ~Comparable(timeline[i].datetime, timeline[j].datetime)

\* item.pop("datetime")
Event(item) == [event |-> item.event, timestamp |-> item.timestamp]

\* use_fallback without `not candidates`.
use_fallback_always(candidates, fallback_timestamps) ==
    fallback_timestamps.isdict

\* if not candidates and isinstance(fallback_timestamps, dict)
use_fallback(candidates, fallback_timestamps) ==
    candidates = <<>> /\ fallback_timestamps.isdict

\* The candidates build_timeline sorts: the metadata's, or the fallback's.
candidates_of(own, fallback_timestamps) ==
    IF use_fallback(own, fallback_timestamps)
    THEN fallback_candidates(fallback_timestamps.items)
    ELSE own

\* The events of the sorted items, the datetimes popped.
Events(sorted) == [i \in 1..Len(sorted) |-> Event(sorted[i])]

\* The end of build_timeline: the sorted list, or the exception of the sort.
sorted_timeline(candidates) ==
    IF SortRaises(candidates) THEN [raised |-> TRUE, timeline |-> <<>>]
    ELSE [raised |-> FALSE, timeline |-> Events(sort(candidates))]

\* build_timeline(metadata, fallback_timestamps): the list, or the exception.
build_timeline(metadata, fallback_timestamps) ==
    sorted_timeline(candidates_of(extract_timestamp_candidates(metadata),
                                  fallback_timestamps))

Delimiters == {">", ";", "|", ",", "/"}

RECURSIVE SplitRuns(_, _, _)
SplitRuns(t, part, inrun) ==
    IF t = <<>> THEN <<part>>
    ELSE IF Head(t) \in Delimiters
         THEN IF inrun THEN SplitRuns(Tail(t), part, TRUE)
              ELSE <<part>> \o SplitRuns(Tail(t), <<>>, TRUE)
         ELSE SplitRuns(Tail(t), Append(part, Head(t)), FALSE)

\* re.split(r"[>;|,/]+", val)
re_split(val) == SplitRuns(val, <<>>, FALSE)

RECURSIVE NormParts(_)
\* The inner loop of the editing chain: strip, drop empties, lower-case.
NormParts(parts) ==
    IF parts = <<>> THEN <<>>
    ELSE LET norm == strip(Head(parts))
         IN  IF norm # <<>> THEN <<lower(norm)>> \o NormParts(Tail(parts))
             ELSE NormParts(Tail(parts))

chain_tokens == <<<<"s","o","f","t","w","a","r","e">>, <<"a","p","p","l","i","c","a","t","i","o","n">>, <<"p","r","o","d","u","c","e","r">>, <<"e","d","i","t","o","r">>>>

RECURSIVE chain_sources_all_keys(_)
\* chain_sources taking the values of every field.
chain_sources_all_keys(metadata) ==
    IF metadata = <<>> THEN <<>>
    ELSE NormParts(re_split(str(Head(metadata)[2])))
         \o chain_sources_all_keys(Tail(metadata))

RECURSIVE chain_sources(_)
chain_sources(metadata) ==
    IF metadata = <<>> THEN <<>>
    ELSE LET key_l == lower(Head(metadata)[1])
             val   == str(Head(metadata)[2])
         IN  IF AnyIn(chain_tokens, key_l)
             THEN NormParts(re_split(val)) \o chain_sources(Tail(metadata))
             ELSE chain_sources(Tail(metadata))

\* fromkeys keeping the repeated items.
fromkeys_keep_all(items) == items

RECURSIVE fromkeys(_)
\* list(dict.fromkeys(items)): the first occurrence of each item, in order.
fromkeys(items) ==
    IF items = <<>> THEN <<>>
    ELSE LET init == fromkeys(SubSeq(items, 1, Len(items) - 1))
             last == items[Len(items)]
         IN  IF \E i \in 1..Len(init) : init[i] = last THEN init
             ELSE Append(init, last)

block_tokens == <<<<"x","m","p">>, <<"i","p","t","c">>, <<"e","x","i","f">>, <<"m","a","k","e","r","n","o","t","e">>, <<"t","h","u","m","b","n","a","i","l">>, <<"h","i","s","t","o","r","y">>>>

\* block_count adding one for every token a key contains.
block_count_tokens(metadata) ==
    Cardinality({p \in (1..Len(metadata)) \X (1..Len(block_tokens)) :
                    Contains(block_tokens[p[2]], lower(metadata[p[1]][1]))})

block_count(metadata) ==
    Cardinality({i \in 1..Len(metadata) :
                    AnyIn(block_tokens, lower(metadata[i][1]))})

parsed_event(event, dt_obj) ==
    IF dt_obj.ok THEN <<[event |-> event.event, datetime |-> dt_obj]>> ELSE <<>>

RECURSIVE parsed_events(_)
\* The first loop of detect_anomalies: the events whose timestamp parses.
parsed_events(timeline) ==
    IF timeline = <<>> THEN <<>>
    ELSE parsed_event(Head(timeline),
                      parse_datetime(StrVal(Head(timeline).timestamp)))
         \o parsed_events(Tail(timeline))

MismatchMsg(curr_event, prev_event) ==
    [text |-> "Timestamp mismatch: '{curr_event}' occurs before '{prev_event}'.",
     args |-> <<curr_event, prev_event>>]

\* first_mismatch naming the last pair that is out of order.
last_mismatch(parsed) ==
    LET stops == {idx \in 2..Len(parsed) :
                     DtLess(parsed[idx].datetime, parsed[idx - 1].datetime)}
        last  == CHOOSE idx \in stops : \A j \in stops : idx >= j
    IN  IF stops = {} THEN [raised |-> FALSE, anomalies |-> <<>>]
        ELSE [raised |-> FALSE,
              anomalies |-> <<MismatchMsg(parsed[last].event,
                                          parsed[last - 1].event)>>]

\* first_mismatch with curr_dt <= prev_dt for its test.
first_mismatch_or_equal(parsed) ==
    LET stops  == {idx \in 2..Len(parsed) :
                      \/ ~Comparable(parsed[idx].datetime, parsed[idx - 1].datetime)
                      \/ ~DtLess(parsed[idx - 1].datetime, parsed[idx].datetime)}
        first  == CHOOSE idx \in stops : \A j \in stops : idx <= j
    IN  IF stops = {} THEN [raised |-> FALSE, anomalies |-> <<>>]
        ELSE IF ~Comparable(parsed[first].datetime, parsed[first - 1].datetime)
             THEN [raised |-> TRUE, anomalies |-> <<>>]
        ELSE [raised |-> FALSE,
              anomalies |-> <<MismatchMsg(parsed[first].event,
                                          parsed[first - 1].event)>>]

\* The second loop of detect_anomalies: the first idx at which curr_dt <
\* prev_dt holds or raises decides.
first_mismatch(parsed) ==
    LET stops  == {idx \in 2..Len(parsed) :
                      \/ ~Comparable(parsed[idx].datetime, parsed[idx - 1].datetime)
                      \/ DtLess(parsed[idx].datetime, parsed[idx - 1].datetime)}
        first  == CHOOSE idx \in stops : \A j \in stops : idx <= j
    IN  IF stops = {} THEN [raised |-> FALSE, anomalies |-> <<>>]
        ELSE IF ~Comparable(parsed[first].datetime, parsed[first - 1].datetime)
             THEN [raised |-> TRUE, anomalies |-> <<>>]
        ELSE [raised |-> FALSE,
              anomalies |-> <<MismatchMsg(parsed[first].event,
                                          parsed[first - 1].event)>>]

\* if len(timeline) >= 2: the out-of-order check.
order_check(timeline) ==
    first_mismatch(IF Len(timeline) >= 2 THEN parsed_events(timeline) ELSE <<>>)

\* The anomalies in the order detect_anomalies appends them.
anomalies_of(order, unique_chain, blocks) ==
    [raised |-> order.raised,
     anomalies |->
        order.anomalies
        \o (IF Len(unique_chain) >= 2
            THEN <<Msg("Multiple editing chain detected from software metadata.")>>
            ELSE <<>>)
        \o (IF blocks >= 3
            THEN <<Msg("Possible overwritten/stacked metadata blocks detected.")>>
            ELSE <<>>)]

\* detect_anomalies(metadata, timeline): the list, or the exception.
detect_anomalies(metadata, timeline) ==
    anomalies_of(order_check(timeline), fromkeys(chain_sources(metadata)),
                 block_count(metadata))

RECURSIVE LevelFrom(_, _)
LevelFrom(score, k) ==
    IF k > Len(RISK_LEVELS) THEN "HIGH"
    ELSE IF RISK_LEVELS[k][1] <= score /\ score <= RISK_LEVELS[k][2]
         THEN RISK_LEVELS[k][3]
         ELSE LevelFrom(score, k + 1)

\* score_to_level with every band one too high.
score_to_level_shifted(score) ==
    IF 1 <= score /\ score <= 30 THEN "LOW"
    ELSE IF 31 <= score /\ score <= 65 THEN "MEDIUM"
    ELSE IF 66 <= score /\ score <= 101 THEN "HIGH"
    ELSE "HIGH"

\* _score_to_level(score)
score_to_level(score) == LevelFrom(score, 1)

RECURSIVE matched_from_first(_, _)
\* matched_from leaving the loop at the first rule that matches.
matched_from_first(metadata, k) ==
    IF k > Len(self_rules) THEN <<>>
    ELSE IF checker_raises(self_rules[k], metadata)
         THEN matched_from_first(metadata, k + 1)
    ELSE IF checker(self_rules[k], metadata) THEN <<self_rules[k]>>
    ELSE matched_from_first(metadata, k + 1)

RECURSIVE matched_from(_, _)
\* The rule loop of analyze_file: the rules whose checker holds, in order.
\* A rule whose checker raises is passed over (except Exception: continue).
matched_from(metadata, k) ==
    IF k > Len(self_rules) THEN <<>>
    ELSE IF checker_raises(self_rules[k], metadata)
         THEN matched_from(metadata, k + 1)
    ELSE IF checker(self_rules[k], metadata)
         THEN <<self_rules[k]>> \o matched_from(metadata, k + 1)
         ELSE matched_from(metadata, k + 1)

RECURSIVE sum_scores_max(_)
\* sum_scores keeping the largest score for the sum.
sum_scores_max(matched) ==
    IF matched = <<>> THEN 0
    ELSE LET rest == sum_scores_max(Tail(matched))
         IN  IF Head(matched).score > rest THEN Head(matched).score ELSE rest

\* sum_scores counting the first matched rule only.
sum_scores_head(matched) ==
    IF matched = <<>> THEN 0 ELSE Head(matched).score

RECURSIVE sum_scores(_)
sum_scores(matched) ==
    IF matched = <<>> THEN 0 ELSE Head(matched).score + sum_scores(Tail(matched))

\* final_score without min(score, 100).
final_score_unclamped(score, anomalies) ==
    IF anomalies # <<>> THEN score + 20 ELSE score

\* final_score adding the 20 whether or not there is an anomaly.
final_score_flat_bonus(score, anomalies) ==
    IF score + 20 < 100 THEN score + 20 ELSE 100

\* if anomalies: score += 20; score = min(score, 100)
final_score(score, anomalies) ==
    LET bumped == IF anomalies # <<>> THEN score + 20 ELSE score
    IN  IF bumped < 100 THEN bumped ELSE 100

\* reasons_of without the fallback sentence.
reasons_of_no_fallback(matched_rules, anomalies) ==
    [i \in 1..Len(matched_rules) |-> Msg(matched_rules[i].reason)] \o anomalies

\* reasons: the rules' reasons, then the anomalies, or the fallback sentence.
reasons_of(matched_rules, anomalies) ==
    LET reasons == [i \in 1..Len(matched_rules) |-> Msg(matched_rules[i].reason)]
                   \o anomalies
    IN  IF reasons = <<>>
        THEN <<Msg("No high-sensitivity metadata indicators were detected.")>>
        ELSE reasons

\* What a call gives its caller: the assessment, or the exception.
Raised(exc) ==
    [status |-> "raised", exc |-> exc, risk_score |-> 0, risk_level |-> "",
     reasons |-> <<>>, matched_rules |-> <<>>, timeline |-> <<>>,
     anomalies |-> <<>>, event_count |-> 0]

\* The dict analyze_file returns.
assessment(matched_rules, timeline, anomalies, score) ==
    [status |-> "returned", exc |-> "",
     risk_score |-> score,
     risk_level |-> score_to_level(score),
     reasons |-> reasons_of(matched_rules, anomalies),
     matched_rules |-> [i \in 1..Len(matched_rules) |-> matched_rules[i].name],
     timeline |-> timeline,
     anomalies |-> anomalies,
     event_count |-> Len(timeline)]

\* analyze_file from the anomalies on.
assess(matched_rules, timeline, detected) ==
    IF detected.raised THEN Raised("TypeError")
    ELSE assessment(matched_rules, timeline, detected.anomalies,
                    final_score(sum_scores(matched_rules), detected.anomalies))

\* analyze_file from the timeline on; nothing catches what build_timeline
\* or detect_anomalies raises.
analyze_built(metadata, matched_rules, built) ==
    IF built.raised THEN Raised("TypeError")
    ELSE assess(matched_rules, built.timeline,
                detect_anomalies(metadata, built.timeline))

\* analyze_file(metadata, file_path, fallback_timestamps)
analyze_file(metadata, fallback_timestamps) ==
    analyze_built(metadata, matched_from(metadata, 1),
                  build_timeline(metadata, fallback_timestamps))

\* A metadata argument: a dict with its items, or something that is no dict
\* (None, a list of pairs, a text), with what it holds.
Dict(items) == [isdict |-> TRUE, items |-> items]

NotDict(items) == [isdict |-> FALSE, items |-> items]

\* metadata if isinstance(metadata, dict) else {}
dict_or_empty(metadata) == IF metadata.isdict THEN metadata.items ELSE <<>>

\* file_path or "": a file_path is a text or None.
path_text(file_path) == IF file_path.kind = "str" THEN file_path.s ELSE <<>>

\* p.rfind("/") + 1
AfterLastSlash(p) ==
    LET at == {i \in 1..Len(p) : p[i] = "/"}
    IN  IF at = {} THEN 0 ELSE CHOOSE i \in at : \A j \in at : i >= j

\* os.path.basename(p), for paths of "/"-separated names
basename(p) == SubSeq(p, AfterLastSlash(p) + 1, Len(p))

\* head.rstrip("/") unless head is made of "/" only
rstrip_slashes(head) ==
    LET keep == {i \in 1..Len(head) : head[i] # "/"}
    IN  IF keep = {} THEN head
        ELSE SubSeq(head, 1, CHOOSE i \in keep : \A j \in keep : i >= j)

\* os.path.dirname(p), for paths of "/"-separated names
dirname(p) == rstrip_slashes(SubSeq(p, 1, AfterLastSlash(p)))

\* The file_path and file_name entries of the dict analyze_file returns.
with_path(item, path) ==
    IF item.status # "returned" THEN item
    ELSE [file_path |-> path,
          file_name |-> IF path # <<>> THEN basename(path) ELSE <<>>] @@ item

\* analyze_metadata(metadata, file_path, fallback_timestamps), which is
\* _analyzer.analyze_file with the same arguments.
analyze_metadata(metadata, file_path, fallback_timestamps) ==
    with_path(analyze_file(dict_or_empty(metadata), fallback_timestamps),
              path_text(file_path))

\* A batch entry is a dict that may hold "file_path" and "metadata".
Entry(file_path, metadata) ==
    [has_path |-> TRUE, file_path |-> file_path,
     has_metadata |-> TRUE, metadata |-> metadata]

PathOnly(file_path) ==
    [has_path |-> TRUE, file_path |-> file_path,
     has_metadata |-> FALSE, metadata |-> NotDict(<<>>)]

MetadataOnly(metadata) ==
    [has_path |-> FALSE, file_path |-> NoneVal,
     has_metadata |-> TRUE, metadata |-> metadata]

\* entry.get("file_path", "")
entry_path(entry) == IF entry.has_path THEN entry.file_path ELSE StrVal(<<>>)

\* entry.get("metadata", {})
entry_metadata(entry) ==
    IF entry.has_metadata THEN entry.metadata ELSE Dict(<<>>)

\* folder_of naming the folder of an empty path like any other.
folder_of_dirname(file_path) == dirname(path_text(file_path))

\* os.path.dirname(file_path) if file_path else "Unknown"
folder_of(file_path) ==
    IF path_text(file_path) # <<>> THEN dirname(path_text(file_path))
    ELSE <<"U","n","k","n","o","w","n">>

\* analyze_entry handing analyze_file a fallback of its own.
analyze_entry_with_fallback(file_path, metadata) ==
    analyze_metadata(metadata, file_path,
        Fallback(<< <<<<"C","r","e","a","t","e","d">>,
                      StrVal(<<"2","0","2","5","-","0","1","-","0","1">>)>> >>))

\* item = self.analyze_file(metadata, file_path)
analyze_entry(file_path, metadata) ==
    analyze_metadata(metadata, file_path, NoFallback)

\* count_level counting a level once however many files attain it.
count_level_once(counts, level) == [counts EXCEPT ![level] = 1]

\* risk_counts[level] = risk_counts.get(level, 0) + 1, and
\* folder_stats[folder][level] += 1
count_level(counts, level) == [counts EXCEPT ![level] = @ + 1]

NoStats == [total |-> 0, LOW |-> 0, MEDIUM |-> 0, HIGH |-> 0]

\* if folder not in folder_stats: folder_stats[folder] = {...zeros...}
with_folder(folder_stats, folder) ==
    IF folder \in DOMAIN folder_stats THEN folder_stats
    ELSE (folder :> NoStats) @@ folder_stats

\* The two increments of the folder's counters.
count_in_folder(folder_stats, folder, level) ==
    [folder_stats EXCEPT
        ![folder] = count_level([@ EXCEPT !.total = @ + 1], level)]

\* The locals of analyze_batch before its loop; raised tells that a call of
\* analyze_file raised, which ends analyze_batch.
BatchStart ==
    [raised |-> FALSE, results |-> <<>>,
     risk_counts |-> [LOW |-> 0, MEDIUM |-> 0, HIGH |-> 0],
     folder_stats |-> <<>>]

\* The body of the loop of analyze_batch once item is there.
add_item(acc, item, folder) ==
    IF item.status # "returned" THEN [acc EXCEPT !.raised = TRUE]
    ELSE [raised |-> FALSE,
          results |-> Append(acc.results, item),
          risk_counts |-> count_level(acc.risk_counts, item.risk_level),
          folder_stats |-> count_in_folder(with_folder(acc.folder_stats, folder),
                                           folder, item.risk_level)]

RECURSIVE batch_loop(_, _, _)
\* for entry in entries, from the k-th entry on
batch_loop(entries, k, acc) ==
    IF k > Len(entries) \/ acc.raised THEN acc
    ELSE batch_loop(entries, k + 1,
            add_item(acc,
                     analyze_entry(entry_path(entries[k]),
                                   entry_metadata(entries[k])),
                     folder_of(entry_path(entries[k]))))

\* None
None == [status |-> "none"]

\* better keeping the later of two results of the same score.
better_or_equal(item, best) == item.risk_score >= best.risk_score

\* max keeps the first result unless a later one has a greater key.
better(item, best) == item.risk_score > best.risk_score

RECURSIVE max_from(_, _)
max_from(results, best) ==
    IF results = <<>> THEN best
    ELSE max_from(Tail(results),
                  IF better(Head(results), best) THEN Head(results) ELSE best)

\* highest_of taking the first result whatever its score.
highest_of_first(results) ==
    IF results = <<>> THEN None ELSE Head(results)

\* max(results, key=lambda x: x["risk_score"], default=None)
highest_of(results) ==
    IF results = <<>> THEN None ELSE max_from(Tail(results), Head(results))

BatchRaised(exc) ==
    [status |-> "raised", exc |-> exc, total_files |-> 0,
     risk_counts |-> [LOW |-> 0, MEDIUM |-> 0, HIGH |-> 0],
     folders |-> <<>>, highest_risk |-> None, results |-> <<>>]

\* The dict analyze_batch returns.
batch_summary(acc) ==
    IF acc.raised THEN BatchRaised("TypeError")
    ELSE [status |-> "returned", exc |-> "",
          total_files |-> Len(acc.results),
          risk_counts |-> acc.risk_counts,
          folders |-> acc.folder_stats,
          highest_risk |-> highest_of(acc.results),
          results |-> acc.results]

\* analyze_batch(entries)
analyze_batch(entries) == batch_summary(batch_loop(entries, 1, BatchStart))

\* ------------------------------------------------------------------------
\* The callers of the analyzer
\* ------------------------------------------------------------------------
\* The fields a caller's metadata map is made of.
MetadataFields ==
    { <<<<"G","P","S"," ","D","a","t","e"," ","S","t","a","m","p">>, StrVal(<<"2","0","2","5",":","0","1",":","0","9">>)>>,
      <<<<"C","a","m","e","r","a"," ","O","w","n","e","r">>, StrVal(<<"B","o","b">>)>>,
      <<<<"S","o","f","t","w","a","r","e">>, StrVal(<<"P","h","o","t","o","s","h","o","p"," ",">"," ","L","i","g","h","t","r","o","o","m">>)>>,
      <<<<"C","r","e","a","t","e","D","a","t","e">>, StrVal(<<"2","0","2","5","-","0","1","-","1","0"," ","1","2",":","0","0",":","0","0">>)>>,
      <<<<"C","a","m","e","r","a"," ","C","a","p","t","u","r","e"," ","T","i","m","e">>, StrVal(<<"2","0","2","5",":","0","1",":","1","0"," ","1","2",":","0","0",":","0","0">>)>>,
      <<<<"M","o","d","i","f","y","D","a","t","e">>, StrVal(<<"2","0","2","5","-","0","1","-","0","8","T","1","0",":","0","0",":","0","0","Z">>)>>,
      <<<<"L","a","s","t"," ","S","a","v","e","d">>, StrVal(<<"0","9","/","0","1","/","2","0","2","5">>)>>,
      <<<<"X","M","P"," ","B","l","o","c","k">>, StrVal(<<"p","r","e","s","e","n","t">>)>>,
      <<<<"L","i","n","e"," ","C","o","u","n","t">>, IntVal(10)>> }

\* The fallback_timestamps arguments a caller passes.
FallbackChoices ==
    { NoFallback,
      Fallback(<< <<<<"M","o","d","i","f","i","e","d"," ","D","a","t","e">>, StrVal(<<"2","0","2","5","-","0","1","-","0","2"," ","0","9",":","0","0",":","0","0">>)>>,
                  <<<<"A","c","c","e","s","s","e","d">>, StrVal(<<"2","0","2","5","-","0","1","-","0","2"," ","0","9",":","0","0">>)>>,
                  <<<<"C","r","e","a","t","e","d"," ","D","a","t","e">>, StrVal(<<"2","0","2","5","/","0","1","/","0","1">>)>> >>),
      Fallback(<< <<<<"O","w","n","e","r"," ","N","o","t","e">>, StrVal(<<"u","n","k","n","o","w","n">>)>>,
                  <<<<"E","x","t","r","a","c","t","i","o","n">>, StrVal(<<"2","0","2","5","-","0","1","-","0","3","T","1","0",":","0","0",":","0","0","+","0","0",":","0","0">>)>> >>),
      Fallback(<< <<<<"E","x","t","r","a","c","t","i","o","n">>, StrVal(<<"2","0","2","5","-","0","1","-","0","3","T","1","0",":","0","0",":","0","0","+","0","0",":","0","0">>)>>,
                  <<<<"M","o","d","i","f","i","e","d"," ","D","a","t","e">>, StrVal(<<"2","0","2","5","-","0","1","-","0","2"," ","0","9",":","0","0",":","0","0">>)>> >>) }

\* The metadata of scenario A (tests/test_risk_analyzer.py).
ScenarioA ==
    << <<<<"G","P","S"," ","L","a","t","i","t","u","d","e">>, StrVal(<<"2","8",".","6","1","3","9">>)>>,
       <<<<"G","P","S"," ","L","o","n","g","i","t","u","d","e">>, StrVal(<<"7","7",".","2","0","9","0">>)>>,
       <<<<"A","u","t","h","o","r">>, StrVal(<<"A","l","i","c","e">>)>>,
       <<<<"C","a","m","e","r","a"," ","M","o","d","e","l">>, StrVal(<<"i","P","h","o","n","e"," ","1","5">>)>>,
       <<<<"S","o","f","t","w","a","r","e">>, StrVal(<<"P","h","o","t","o","s","h","o","p"," ",">"," ","L","i","g","h","t","r","o","o","m">>)>>,
       <<<<"X","M","P"," ","B","l","o","c","k">>, StrVal(<<"p","r","e","s","e","n","t">>)>>,
       <<<<"C","r","e","a","t","e","D","a","t","e">>, StrVal(<<"2","0","2","5","-","0","1","-","1","0"," ","1","2",":","0","0",":","0","0">>)>>,
       <<<<"M","o","d","i","f","y","D","a","t","e">>, StrVal(<<"2","0","2","5","-","0","1","-","0","8"," ","1","0",":","0","0",":","0","0">>)>> >>

\* The metadata of scenario B (tests/test_risk_analyzer.py).
ScenarioB ==
    << <<<<"L","i","n","e"," ","C","o","u","n","t">>, IntVal(10)>>,
       <<<<"E","n","c","o","d","i","n","g">>, StrVal(<<"u","t","f","-","8">>)>> >>

\* A map whose values are a timestamp under a key with no date hint, None,
\* blanks and a text that is no timestamp under date-hinted keys, and one
\* date-hinted timestamp.
ScenarioDates ==
    << <<<<"N","o","t","e">>, StrVal(<<"2","0","2","5","-","0","1","-","0","1">>)>>,
       <<<<"E","d","i","t"," ","T","i","m","e">>, NoneVal>>,
       <<<<"S","c","a","n"," ","D","a","t","e">>, StrVal(<<" "," ">>)>>,
       <<<<"T","i","m","e","s","t","a","m","p">>, StrVal(<<"n","/","a">>)>>,
       <<<<"C","r","e","a","t","e","D","a","t","e">>, StrVal(<<"2","0","2","5","-","0","1","-","1","0"," ","1","2",":","0","0",":","0","0">>)>> >>

\* A map of three keys that name a revision history.
ScenarioBlocks ==
    << <<<<"H","i","s","t","o","r","y">>, StrVal(<<"a">>)>>,
       <<<<"E","d","i","t"," ","H","i","s","t","o","r","y">>, StrVal(<<"a">>)>>,
       <<<<"h","i","s","t","o","r","y"," ","l","o","g">>, StrVal(<<"a">>)>> >>

\* The maps a caller starts from.
StartMaps == {<<>>, ScenarioA, ScenarioB, ScenarioDates, ScenarioBlocks}

\* The file_path arguments a caller passes.
PathChoices == {NoneVal, StrVal(<<"A","/","f","1">>)}

\* The metadata arguments that are no dict: None, a list of pairs, a text.
NonMapChoices ==
    { NotDict(<<>>),
      NotDict(<< <<<<"G","P","S">>, StrVal(<<"1","2",".","1",",","7","7",".","2">>)>> >>),
      NotDict(<< <<<<"S","o","f","t","w","a","r","e">>, StrVal(<<"a"," ",">"," ","b">>)>> >>) }

\* The entries a caller puts in a batch.
EntryChoices ==
    { Entry(StrVal(<<"A","/","f","1">>),
            Dict(<< <<<<"G","P","S"," ","D","a","t","e"," ","S","t","a","m","p">>, StrVal(<<"2","0","2","5",":","0","1",":","0","9">>)>>,
                    <<<<"C","a","m","e","r","a"," ","O","w","n","e","r">>, StrVal(<<"B","o","b">>)>> >>)),
      Entry(StrVal(<<"A","/","f","2">>),
            Dict(<< <<<<"L","i","n","e"," ","C","o","u","n","t">>, IntVal(10)>> >>)),
      Entry(StrVal(<<"B","/","/","f","3">>),
            Dict(<< <<<<"S","o","f","t","w","a","r","e">>, StrVal(<<"P","h","o","t","o","s","h","o","p"," ",">"," ","L","i","g","h","t","r","o","o","m">>)>> >>)),
      Entry(NoneVal,
            Dict(<< <<<<"S","o","f","t","w","a","r","e">>, StrVal(<<"P","h","o","t","o","s","h","o","p"," ",">"," ","L","i","g","h","t","r","o","o","m">>)>> >>)),
      Entry(StrVal(<<"f","4">>),
            Dict(<< <<<<"L","a","s","t"," ","S","a","v","e","d">>, StrVal(<<"0","9","/","0","1","/","2","0","2","5">>)>> >>)),
      PathOnly(StrVal(<<>>)),
      MetadataOnly(NotDict(<< <<<<"G","P","S">>, StrVal(<<"1","2",".","1",",","7","7",".","2">>)>> >>)),
      Entry(StrVal(<<"/","f","5">>),
            Dict(<< <<<<"C","r","e","a","t","e","D","a","t","e">>, StrVal(<<"2","0","2","5","-","0","1","-","1","0"," ","1","2",":","0","0",":","0","0">>)>>,
                    <<<<"M","o","d","i","f","y","D","a","t","e">>, StrVal(<<"2","0","2","5","-","0","1","-","0","8","T","1","0",":","0","0",":","0","0","Z">>)>> >>)) }

\* The events of the timelines a caller hands detect_anomalies.
EventChoices ==
    { [event |-> <<"C","r","e","a","t","e","d">>, timestamp |-> <<"2","0","2","5","-","0","1","-","1","0"," ","1","2",":","0","0",":","0","0">>],
      [event |-> <<"M","o","d","i","f","i","e","d">>, timestamp |-> <<"2","0","2","5","-","0","1","-","0","8"," ","1","0",":","0","0",":","0","0">>],
      [event |-> <<"S","a","v","e","d">>, timestamp |-> <<"1","0","/","0","1","/","2","0","2","5"," ","1","2",":","0","0">>],
      [event |-> <<"S","c","a","n","n","e","d">>, timestamp |-> <<"2","0","2","5","-","0","1","-","0","5">>],
      [event |-> <<"N","o","t","e">>, timestamp |-> <<"n","/","a">>],
      [event |-> <<"S","y","n","c","e","d">>, timestamp |-> <<"2","0","2","5","-","0","1","-","0","9","T","0","0",":","0","0",":","0","0","Z">>] }

Timelines == UNION {[1..n -> EventChoices] : n \in 0..MaxEvents}

\* The metadata maps a caller hands detect_anomalies.
DetectMaps ==
    { <<>>,
      << <<<<"S","o","f","t","w","a","r","e">>, StrVal(<<"P","h","o","t","o","s","h","o","p"," ",">"," "," ","p","h","o","t","o","s","h","o","p"," ",";">>)>> >>,
      << <<<<"E","d","i","t","o","r">>, StrVal(<<" ","p","h","o","t","o","s","h","o","p">>)>>,
         <<<<"P","D","F"," ","P","r","o","d","u","c","e","r">>, StrVal(<<"P","H","O","T","O","S","H","O","P","|","/","l","i","g","h","t","r","o","o","m">>)>> >>,
      << <<<<"N","o","t","e">>, StrVal(<<"a"," ",">"," ","b">>)>>,
         <<<<"A","p","p","l","i","c","a","t","i","o","n">>, StrVal(<<"a">>)>> >>,
      << <<<<"X","M","P"," ","B","l","o","c","k">>, StrVal(<<"p","r","e","s","e","n","t">>)>>,
         <<<<"E","X","I","F"," ","I","F","D">>, NoneVal>>,
         <<<<"T","h","u","m","b","n","a","i","l"," ","H","i","s","t","o","r","y">>, IntVal(2)>> >>,
      << <<<<"X","M","P"," ","E","x","i","f">>, StrVal(<<"x">>)>>,
         <<<<"T","h","u","m","b","n","a","i","l">>, StrVal(<<"y">>)>>,
         <<<<"N","o","t","e">>, StrVal(<<"x","m","p"," ","i","p","t","c"," ","e","x","i","f">>)>> >>,
      << <<<<"S","o","f","t","w","a","r","e">>, StrVal(<<"P","h","o","t","o","s","h","o","p"," ">>)>>,
         <<<<"E","d","i","t","o","r">>, StrVal(<<"p","h","o","t","o","s","h","o","p">>)>>,
         <<<<"P","r","o","d","u","c","e","r">>, StrVal(<<"G","I","M","P">>)>> >> }

\* The objects the code changes in place (append, extend, sort, pop, item
\* assignment) are reached through these names.
WrittenNames ==
    {"matched_rules", "reasons", "candidates", "timeline", "item", "anomalies",
     "parsed", "chain_sources", "results", "risk_counts", "folder_stats"}

\* bound_to naming the fallback map as the list the fallback loop appends to.
bound_to_argument(name) ==
    IF name = "candidates" THEN "fallback_timestamps" ELSE "local"

\* bound_to with matched_rules naming the analyzer's own list.
bound_to_rules(name) ==
    IF name = "matched_rules" THEN "self.rules" ELSE "local"

\* The object a written name is bound to: each one is a list or dict the
\* call itself made ([] , {...}, a comprehension), none is an argument or
\* self.rules.
bound_to(name) == "local"

\* An object of the caller as the call leaves it.
after_call(object, value) ==
    IF \E name \in WrittenNames : bound_to(name) = object
    THEN (IF object = "fallback_timestamps" THEN [value EXCEPT !.items = <<>>]
          ELSE <<>>)
    ELSE value

VARIABLES
    metadata,             \* the items of the caller's metadata map
    fallback_timestamps,  \* the fallback map of the caller's calls
    file_path,            \* the file_path of the caller's calls
    passed,               \* the objects the last call was given, as given
    result,               \* what the last analyze_file call gave
    previous,             \* what the call before it gave
    entries,              \* the caller's list of batch entries
    summary,              \* what the last analyze_batch call gave
    op,                   \* the caller's last step
    direct,               \* the last direct call of detect_anomalies
    threads               \* the calls running in threads, with their locals

vars ==
    <<self_rules, metadata, fallback_timestamps, file_path, passed, result,
      previous, entries, summary, op, direct, threads>>

NoCall ==
    [status |-> "none", exc |-> "", risk_score |-> 0, risk_level |-> "",
     reasons |-> <<>>, matched_rules |-> <<>>, timeline |-> <<>>,
     anomalies |-> <<>>, event_count |-> 0]

NoBatch ==
    [status |-> "none", exc |-> "", total_files |-> 0,
     risk_counts |-> [LOW |-> 0, MEDIUM |-> 0, HIGH |-> 0],
     folders |-> <<>>, highest_risk |-> None, results |-> <<>>]

NothingPassed ==
    [metadata |-> NotDict(<<>>), fallback_timestamps |-> NoFallback,
     entries |-> <<>>, rules |-> <<>>]

\* The threads that call the one analyzer.
Threads == {1, 2}

\* The locals of a call that has not begun.
NoLocals ==
    [metadata |-> <<>>, fallback_timestamps |-> NoFallback, file_path |-> NoneVal,
     k |-> 0, matched_rules |-> <<>>, score |-> 0, timeline |-> <<>>,
     anomalies |-> <<>>, entries |-> <<>>, acc |-> BatchStart]

NoArgs ==
    [call |-> "none", metadata |-> NotDict(<<>>),
     fallback_timestamps |-> NoFallback, file_path |-> NoneVal,
     entries |-> <<>>]

\* Where each thread stands, what it was called with, the frames of locals,
\* what each call returned, and whether two calls have run at once.
NoThreads ==
    [pc |-> [t \in Threads |-> "idle"],
     args |-> [t \in Threads |-> NoArgs],
     locals |-> [t \in Threads |-> NoLocals],
     returned |-> [t \in Threads |-> NoCall],
     overlapped |-> FALSE]

NoDirect ==
    [metadata |-> <<>>, timeline |-> <<>>,
     outcome |-> [raised |-> FALSE, anomalies |-> <<>>]]

HasKey(m, key) == \E i \in 1..Len(m) : m[i][1] = key

\* _analyzer = PrivacyForensicAnalyzer(), and a caller that has its map.
Init ==
    /\ self_rules = rules
    /\ metadata \in StartMaps
    /\ fallback_timestamps = NoFallback
    /\ file_path = NoneVal
    /\ passed = NothingPassed
    /\ result = NoCall
    /\ previous = NoCall
    /\ entries = <<>>
    /\ summary = NoBatch
    /\ op = "none"
    /\ direct = NoDirect
    /\ threads = NoThreads

\* A caller appends a rule of its own to the analyzer's list.
AppendRule ==
    /\ op = "none"
    /\ self_rules = rules
    /\ self_rules' = Append(self_rules, RaisingRule)
    /\ UNCHANGED <<metadata, fallback_timestamps, file_path, passed, result,
                   previous, entries, summary, op, direct, threads>>

\* The caller's first call: analyze_metadata(metadata, p, fb).
Analyze(p, fb) ==
    /\ op = "none"
    /\ passed' = [metadata |-> Dict(metadata), fallback_timestamps |-> fb,
                  entries |-> <<>>, rules |-> self_rules]
    /\ result' = analyze_metadata(Dict(metadata), p, fb)
    /\ metadata' = after_call("metadata", metadata)
    /\ fallback_timestamps' = after_call("fallback_timestamps", fb)
    /\ self_rules' = after_call("self.rules", self_rules)
    /\ file_path' = p
    /\ op' = "analyze"
    /\ UNCHANGED <<previous, entries, summary, threads, direct>>

\* The caller adds one field to its map, changes nothing else and calls
\* analyze_metadata again.
AddField(f) ==
    /\ op \in {"analyze", "add"}
    /\ Len(metadata) < MaxFields
    /\ ~HasKey(metadata, f[1])
    /\ passed' = [metadata |-> Dict(Append(metadata, f)),
                  fallback_timestamps |-> fallback_timestamps,
                  entries |-> <<>>, rules |-> self_rules]
    /\ previous' = result
    /\ result' = analyze_metadata(Dict(Append(metadata, f)), file_path,
                                  fallback_timestamps)
    /\ metadata' = after_call("metadata", Append(metadata, f))
    /\ fallback_timestamps' = after_call("fallback_timestamps", fallback_timestamps)
    /\ self_rules' = after_call("self.rules", self_rules)
    /\ op' = "add"
    /\ UNCHANGED <<file_path, entries, summary, threads, direct>>

\* A caller whose metadata is no dict calls analyze_metadata(x, p, fb).
AnalyzeNonMap(x, p, fb) ==
    /\ op = "none"
    /\ metadata = <<>>
    /\ passed' = [metadata |-> x, fallback_timestamps |-> fb,
                  entries |-> <<>>, rules |-> self_rules]
    /\ result' = analyze_metadata(x, p, fb)
    /\ fallback_timestamps' = after_call("fallback_timestamps", fb)
    /\ self_rules' = after_call("self.rules", self_rules)
    /\ file_path' = p
    /\ op' = "nonmap"
    /\ UNCHANGED <<metadata, previous, entries, summary, threads, direct>>

\* The caller's first batch call: analyze_batch(entries), of no entries yet.
AnalyzeBatch ==
    /\ op = "none"
    /\ metadata = <<>>
    /\ passed' = [metadata |-> NotDict(<<>>), fallback_timestamps |-> NoFallback,
                  entries |-> entries, rules |-> self_rules]
    /\ summary' = analyze_batch(entries)
    /\ entries' = after_call("entries", entries)
    /\ self_rules' = after_call("self.rules", self_rules)
    /\ op' = "batch"
    /\ UNCHANGED <<metadata, fallback_timestamps, file_path, result, previous, threads, direct>>

\* The caller appends one entry to its list and calls analyze_batch again.
AddEntry(e) ==
    /\ op = "batch"
    /\ Len(entries) < MaxEntries
    /\ passed' = [metadata |-> NotDict(<<>>), fallback_timestamps |-> NoFallback,
                  entries |-> Append(entries, e), rules |-> self_rules]
    /\ summary' = analyze_batch(Append(entries, e))
    /\ entries' = after_call("entries", Append(entries, e))
    /\ self_rules' = after_call("self.rules", self_rules)
    /\ UNCHANGED <<metadata, fallback_timestamps, file_path, result, previous, op, threads, direct>>

\* After its batch calls the caller calls analyze_metadata on the metadata
\* and the path of one of the entries, on the same module-level analyzer.
AnalyzeAfterBatch(k) ==
    /\ op = "batch"
    /\ k \in 1..Len(entries)
    /\ passed' = [metadata |-> entry_metadata(entries[k]),
                  fallback_timestamps |-> NoFallback,
                  entries |-> <<>>, rules |-> self_rules]
    /\ result' = analyze_metadata(entry_metadata(entries[k]),
                                  entry_path(entries[k]), NoFallback)
    /\ metadata' = after_call("metadata", dict_or_empty(entry_metadata(entries[k])))
    /\ fallback_timestamps' = after_call("fallback_timestamps", NoFallback)
    /\ self_rules' = after_call("self.rules", self_rules)
    /\ file_path' = entry_path(entries[k])
    /\ op' = "after"
    /\ UNCHANGED <<previous, entries, summary, direct, threads>>

\* The caller repeats its first call with the same arguments.
Reanalyze ==
    /\ op = "analyze"
    /\ passed' = [metadata |-> Dict(metadata),
                  fallback_timestamps |-> fallback_timestamps,
                  entries |-> <<>>, rules |-> self_rules]
    /\ previous' = result
    /\ result' = analyze_metadata(Dict(metadata), file_path, fallback_timestamps)
    /\ metadata' = after_call("metadata", metadata)
    /\ fallback_timestamps' = after_call("fallback_timestamps", fallback_timestamps)
    /\ self_rules' = after_call("self.rules", self_rules)
    /\ op' = "again"
    /\ UNCHANGED <<file_path, entries, summary, direct, threads>>

\* A caller calls detect_anomalies(m, tl) with a timeline of its own.
DetectAnomalies(m, tl) ==
    /\ op = "none"
    /\ metadata = <<>>
    /\ self_rules = rules
    /\ direct' = [metadata |-> m, timeline |-> tl,
                  outcome |-> detect_anomalies(m, tl)]
    /\ passed' = [metadata |-> Dict(m), fallback_timestamps |-> NoFallback,
                  entries |-> <<>>, rules |-> self_rules]
    /\ op' = "detect"
    /\ UNCHANGED <<self_rules, metadata, fallback_timestamps, file_path,
                   result, previous, entries, summary, threads>>

Next ==
    \/ AppendRule
    \/ Reanalyze
    \/ \E m \in DetectMaps, tl \in Timelines : DetectAnomalies(m, tl)
    \/ \E p \in PathChoices, fb \in FallbackChoices : Analyze(p, fb)
    \/ \E f \in MetadataFields : AddField(f)
    \/ \E x \in NonMapChoices, p \in PathChoices, fb \in FallbackChoices :
          AnalyzeNonMap(x, p, fb)
    \/ AnalyzeBatch
    \/ \E e \in EntryChoices : AddEntry(e)
    \/ \E k \in 1..MaxEntries : AnalyzeAfterBatch(k)

Spec == Init /\ [][Next]_vars

\* ------------------------------------------------------------------------
\* Calls of the one analyzer from several threads, step by step
\* ------------------------------------------------------------------------
\* The calls a thread makes of analyze_metadata.
ThreadCalls ==
    { [call |-> "file", entries |-> <<>>, file_path |-> StrVal(<<"A","/","f","1">>),
       fallback_timestamps |-> NoFallback,
       metadata |-> Dict(<< <<<<"S","o","f","t","w","a","r","e">>, StrVal(<<"P","h","o","t","o","s","h","o","p"," ",">"," ","L","i","g","h","t","r","o","o","m">>)>> >>)],
      [call |-> "file", entries |-> <<>>, file_path |-> NoneVal,
       fallback_timestamps |->
           Fallback(<< <<<<"C","r","e","a","t","e","d"," ","D","a","t","e">>, StrVal(<<"2","0","2","5","/","0","1","/","0","1">>)>> >>),
       metadata |-> Dict(<< <<<<"G","P","S"," ","D","a","t","e"," ","S","t","a","m","p">>, StrVal(<<"2","0","2","5",":","0","1",":","0","9">>)>>,
                            <<<<"C","a","m","e","r","a"," ","O","w","n","e","r">>, StrVal(<<"B","o","b">>)>> >>)],
      [call |-> "file", entries |-> <<>>, file_path |-> NoneVal,
       fallback_timestamps |-> NoFallback,
       metadata |-> Dict(<< <<<<"C","r","e","a","t","e","D","a","t","e">>, StrVal(<<"2","0","2","5","-","0","1","-","1","0"," ","1","2",":","0","0",":","0","0">>)>>,
                            <<<<"M","o","d","i","f","y","D","a","t","e">>, StrVal(<<"2","0","2","5","-","0","1","-","0","8","T","1","0",":","0","0",":","0","0","Z">>)>> >>)] }

\* The calls a thread makes of analyze_batch.
ThreadBatches ==
    { [call |-> "batch", metadata |-> NotDict(<<>>), file_path |-> NoneVal,
       fallback_timestamps |-> NoFallback,
       entries |->
          << Entry(StrVal(<<"A","/","f","2">>),
                   Dict(<< <<<<"L","i","n","e"," ","C","o","u","n","t">>, IntVal(10)>> >>)),
             Entry(StrVal(<<"B","/","/","f","3">>),
                   Dict(<< <<<<"S","o","f","t","w","a","r","e">>, StrVal(<<"P","h","o","t","o","s","h","o","p"," ",">"," ","L","i","g","h","t","r","o","o","m">>)>> >>)) >>] }

\* frame keeping the locals of every call in one place on the instance.
frame_on_instance(t) == 1

\* The frame of the locals of the call thread t makes: every call of a
\* method has a frame of its own, and the methods keep all they compute in
\* locals.
frame(t) == t

Local(t) == threads.locals[frame(t)]

Running(t) == threads.pc[t] \notin {"idle", "done"}

\* A step of thread t while another thread is inside a call.
Overlap(t) == threads.overlapped \/ \E u \in Threads \ {t} : Running(u)

\* A thread that shares _analyzer with the others.
InitThreads ==
    /\ self_rules = rules
    /\ metadata = <<>>
    /\ fallback_timestamps = NoFallback
    /\ file_path = NoneVal
    /\ passed = NothingPassed
    /\ result = NoCall
    /\ previous = NoCall
    /\ entries = <<>>
    /\ summary = NoBatch
    /\ op = "none"
    /\ direct = NoDirect
    /\ threads = NoThreads

caller_vars ==
    <<self_rules, metadata, fallback_timestamps, file_path, passed, result,
      previous, entries, summary, op, direct>>

\* Thread t enters analyze_file: metadata is normalised, matched_rules = [],
\* score = 0, and the rule loop is at its first rule.
CallFile(t, c) ==
    /\ threads.pc[t] = "idle"
    /\ threads' = [threads EXCEPT
          !.pc[t] = "rules",
          !.args[t] = c,
          !.locals[frame(t)] =
              [NoLocals EXCEPT !.metadata = dict_or_empty(c.metadata),
                               !.fallback_timestamps = c.fallback_timestamps,
                               !.file_path = c.file_path,
                               !.k = 1],
          !.overlapped = Overlap(t)]
    /\ UNCHANGED caller_vars

\* The locals after one turn of the rule loop for rule.
after_rule(l, rule, hit) ==
    [l EXCEPT !.k = @ + 1,
              !.matched_rules = IF hit THEN Append(@, rule) ELSE @,
              !.score = IF hit THEN @ + rule.score ELSE @]

\* One turn of for rule in self.rules; after the last rule the call goes on
\* to build_timeline.
RuleStep(t) ==
    /\ threads.pc[t] = "rules"
    /\ Local(t).k <= Len(self_rules)
    /\ threads' = [threads EXCEPT
          !.pc[t] = IF Local(t).k = Len(self_rules) THEN "timeline" ELSE "rules",
          !.locals[frame(t)] =
              after_rule(Local(t), self_rules[Local(t).k],
                         /\ ~checker_raises(self_rules[Local(t).k], Local(t).metadata)
                         /\ checker(self_rules[Local(t).k], Local(t).metadata)),
          !.overlapped = Overlap(t)]
    /\ UNCHANGED caller_vars

\* The thread as an exception leaves its call.
thread_raised(t, exc) ==
    [threads EXCEPT !.pc[t] = "done", !.returned[t] = exc,
                    !.overlapped = Overlap(t)]

after_timeline(t, l, built) ==
    IF built.raised THEN thread_raised(t, Raised("TypeError"))
    ELSE [threads EXCEPT !.pc[t] = "anomalies",
                         !.locals[frame(t)] = [l EXCEPT !.timeline = built.timeline],
                         !.overlapped = Overlap(t)]

\* timeline = self.build_timeline(metadata, fallback_timestamps=...)
TimelineStep(t) ==
    /\ threads.pc[t] = "timeline"
    /\ threads' = after_timeline(t, Local(t),
                     build_timeline(Local(t).metadata, Local(t).fallback_timestamps))
    /\ UNCHANGED caller_vars

after_anomalies(t, l, detected) ==
    IF detected.raised THEN thread_raised(t, Raised("TypeError"))
    ELSE [threads EXCEPT !.pc[t] = "score",
                         !.locals[frame(t)] = [l EXCEPT !.anomalies = detected.anomalies],
                         !.overlapped = Overlap(t)]

\* anomalies = self.detect_anomalies(metadata, timeline)
AnomaliesStep(t) ==
    /\ threads.pc[t] = "anomalies"
    /\ threads' = after_anomalies(t, Local(t),
                     detect_anomalies(Local(t).metadata, Local(t).timeline))
    /\ UNCHANGED caller_vars

\* if anomalies: score += 20; score = min(score, 100)
ScoreStep(t) ==
    /\ threads.pc[t] = "score"
    /\ threads' = [threads EXCEPT
          !.pc[t] = "return",
          !.locals[frame(t)] =
              [Local(t) EXCEPT !.score = final_score(@, Local(t).anomalies)],
          !.overlapped = Overlap(t)]
    /\ UNCHANGED caller_vars

\* level, reasons and the returned dict
ReturnStep(t) ==
    /\ threads.pc[t] = "return"
    /\ threads' = [threads EXCEPT
          !.pc[t] = "done",
          !.returned[t] =
              with_path(assessment(Local(t).matched_rules, Local(t).timeline,
                                   Local(t).anomalies, Local(t).score),
                        path_text(Local(t).file_path)),
          !.overlapped = Overlap(t)]
    /\ UNCHANGED caller_vars

\* Thread t enters analyze_batch: results, risk_counts and folder_stats are
\* made, and the loop is at the first entry.
CallBatch(t, c) ==
    /\ threads.pc[t] = "idle"
    /\ threads' = [threads EXCEPT
          !.pc[t] = "entries",
          !.args[t] = c,
          !.locals[frame(t)] = [NoLocals EXCEPT !.entries = c.entries, !.k = 1],
          !.overlapped = Overlap(t)]
    /\ UNCHANGED caller_vars

after_entry(t, l, acc) ==
    IF acc.raised THEN thread_raised(t, BatchRaised("TypeError"))
    ELSE [threads EXCEPT
             !.locals[frame(t)] = [l EXCEPT !.k = @ + 1, !.acc = acc],
             !.overlapped = Overlap(t)]

\* One turn of for entry in entries.
EntryStep(t) ==
    /\ threads.pc[t] = "entries"
    /\ Local(t).k <= Len(Local(t).entries)
    /\ threads' = after_entry(t, Local(t),
          add_item(Local(t).acc,
                   analyze_entry(entry_path(Local(t).entries[Local(t).k]),
                                 entry_metadata(Local(t).entries[Local(t).k])),
                   folder_of(entry_path(Local(t).entries[Local(t).k]))))
    /\ UNCHANGED caller_vars

\* highest = max(...) and the returned dict
BatchReturn(t) ==
    /\ threads.pc[t] = "entries"
    /\ Local(t).k > Len(Local(t).entries)
    /\ threads' = [threads EXCEPT
          !.pc[t] = "done",
          !.returned[t] = batch_summary(Local(t).acc),
          !.overlapped = Overlap(t)]
    /\ UNCHANGED caller_vars

NextThreads ==
    \/ \E t \in Threads, c \in ThreadCalls : CallFile(t, c)
    \/ \E t \in Threads : RuleStep(t)
    \/ \E t \in Threads : TimelineStep(t)
    \/ \E t \in Threads : AnomaliesStep(t)
    \/ \E t \in Threads : ScoreStep(t)
    \/ \E t \in Threads : ReturnStep(t)
    \/ \E t \in Threads, c \in ThreadBatches : CallBatch(t, c)
    \/ \E t \in Threads : EntryStep(t)
    \/ \E t \in Threads : BatchReturn(t)

SpecThreads == InitThreads /\ [][NextThreads]_vars

\* ------------------------------------------------------------------------
\* Properties
\* ------------------------------------------------------------------------
Returned == result.status = "returned"

\* The caller's last step was a call of analyze_metadata.
Called == op \in {"analyze", "add", "nonmap"}

BothReturned == op = "add" /\ previous.status = "returned" /\ Returned

RuleNamed(name) == rules[CHOOSE k \in 1..Len(rules) : rules[k].name = name]

RECURSIVE ScoreOfNames(_)
ScoreOfNames(names) ==
    IF names = <<>> THEN 0
    ELSE RuleNamed(Head(names)).score + ScoreOfNames(Tail(names))

Range(seq) == {seq[i] : i \in 1..Len(seq)}

Min(a, b) == IF a < b THEN a ELSE b

LevelNames == {"LOW", "MEDIUM", "HIGH"}

\* The rules the added field made match.
NewlyMatched == Range(result.matched_rules) \ Range(previous.matched_rules)

RECURSIVE SumOver(_)
SumOver(names) ==
    IF names = {} THEN 0
    ELSE LET n == CHOOSE n \in names : TRUE
         IN  RuleNamed(n).score + SumOver(names \ {n})

HintedKey(field) == AnyIn(key_hints, lower(field[1]))

\* The date-hinted fields of a map whose value parses.
Usable(m) == {i \in 1..Len(m) : HintedKey(m[i]) /\ parse_datetime(m[i][2]).ok}

Parseable(items) == {i \in 1..Len(items) : parse_datetime(items[i][2]).ok}

EventOf(field) == [event |-> field[1], timestamp |-> str(field[2])]

ParsedOf(event) == parse_datetime(StrVal(event.timestamp))

\* Where the field of an event stands in the map it comes from.
PosIn(m, event) == CHOOSE i \in 1..Len(m) : EventOf(m[i]) = event

FromMap(m, event) == \E i \in 1..Len(m) : EventOf(m[i]) = event

\* The events are in ascending order of their parsed datetimes, and events
\* of equal datetimes in the order of their fields in m.
SortedStable(timeline, m) ==
    \A i, j \in 1..Len(timeline) :
        i < j =>
            /\ Comparable(ParsedOf(timeline[i]), ParsedOf(timeline[j]))
            /\ ~DtLess(ParsedOf(timeline[j]), ParsedOf(timeline[i]))
            /\ ~DtLess(ParsedOf(timeline[i]), ParsedOf(timeline[j]))
                  => PosIn(m, timeline[i]) < PosIn(m, timeline[j])

\* The map the events of the last call's timeline come from.
SourceMap ==
    IF Usable(metadata) # {} THEN metadata ELSE fallback_timestamps.items

WellFormed(r) ==
    /\ r.risk_score \in 0..100
    /\ r.risk_level \in LevelNames
    /\ r.reasons # <<>>
    /\ r.event_count = Len(r.timeline)

\* C1: analyze_file returns a well-formed assessment and never raises,
\* whatever texts, numbers and timestamps (with or without a UTC offset) the
\* metadata and fallback maps hold.
C1_NeverRaises == Called => Returned /\ WellFormed(result)

\* C2: the risk_score of every returned assessment is an integer from 0 to
\* 100.
C2_ScoreInRange == Returned => result.risk_score \in 0..100

\* C2 witness: a returned assessment whose rules and anomaly bonus add up to
\* more than 100.
C2_Witness ==
    /\ Returned
    /\ result.risk_score = 100
    /\ ScoreOfNames(result.matched_rules) + 20 > 100
    /\ result.anomalies # <<>>

\* C3: risk_level is LOW iff 0 <= score <= 29, MEDIUM iff 30 <= score <= 64,
\* HIGH iff 65 <= score <= 100, and the score of every returned assessment
\* lies in one of the three bands.
C3_LevelMatchesScore ==
    Returned =>
        /\ result.risk_level = "LOW" <=> result.risk_score \in 0..29
        /\ result.risk_level = "MEDIUM" <=> result.risk_score \in 30..64
        /\ result.risk_level = "HIGH" <=> result.risk_score \in 65..100
        /\ \E k \in 1..Len(RISK_LEVELS) :
              result.risk_score \in RISK_LEVELS[k][1]..RISK_LEVELS[k][2]

\* C3 witness: a returned assessment with a score on a band's edge.
C3_Witness ==
    /\ Returned
    /\ result.risk_score = 65
    /\ result.risk_level = "HIGH"
    /\ \E k \in 1..Len(metadata) : metadata[k][1] = <<"S","o","f","t","w","a","r","e">>

\* C4: when one more field makes a rule match that did not match before
\* and nothing else changes, the risk_score of the new assessment is not
\* below the risk_score of the old one.
C4_ScoreNeverDecreases ==
    BothReturned /\ NewlyMatched # {} =>
        result.risk_score >= previous.risk_score

\* C4 witness: a field that newly matches a rule was added and the score
\* rose.
C4_Witness ==
    /\ BothReturned
    /\ NewlyMatched = {"gps_coordinates"}
    /\ previous.risk_score = 36
    /\ result.risk_score = 66

\* C5 as stated: when the old score is not 100, a field that makes rule R
\* match raises the score by exactly R.score.
C5_ExactIncrement ==
    BothReturned /\ previous.risk_score # 100 =>
        \A n \in NewlyMatched :
            result.risk_score = previous.risk_score + RuleNamed(n).score

\* C5 amended: when the old score is below 100, the new score is the
\* smaller of 100 and the old score plus the scores of all the rules the
\* field newly matches plus 20 if the field makes the anomalies list
\* non-empty.
C5_IncrementAmended ==
    BothReturned /\ previous.risk_score < 100 /\ NewlyMatched # {} =>
        result.risk_score =
            Min(100, previous.risk_score + SumOver(NewlyMatched)
                     + (IF previous.anomalies = <<>> /\ result.anomalies # <<>>
                        THEN 20 ELSE 0))

\* C5 witness: the added field newly matches editing_traces (15) alone and
\* the score rises by 35, the field also starting an editing chain.
C5_Witness ==
    /\ BothReturned
    /\ NewlyMatched = {"editing_traces"}
    /\ previous.anomalies = <<>>
    /\ result.anomalies # <<>>
    /\ result.risk_score = previous.risk_score + 35

\* C6: risk_score = min(100, S + A), S the sum of the scores of the rules
\* of matched_rules, no rule being there twice, A = 20 if there is an
\* anomaly and 0 otherwise.
C6_ScoreFormula ==
    Returned =>
        /\ \A i, j \in 1..Len(result.matched_rules) :
              result.matched_rules[i] = result.matched_rules[j] => i = j
        /\ Range(result.matched_rules) \subseteq {rules[k].name : k \in 1..Len(rules)}
        /\ result.risk_score =
              Min(100, ScoreOfNames(result.matched_rules)
                       + (IF result.anomalies # <<>> THEN 20 ELSE 0))

\* C6 witness: two fields of the map satisfy device_information, which is
\* counted once, and no anomaly adds to the score.
C6_Witness ==
    /\ Returned
    /\ Cardinality({i \in 1..Len(metadata) :
                      has_any_key(<<metadata[i]>>, rules[3].keywords)}) = 2
    /\ result.matched_rules = <<"author_identity", "device_information">>
    /\ result.anomalies = <<>>
    /\ result.risk_score = 36

\* C7: reasons is never empty: it is the reasons of the matched rules in
\* rule order, then the anomalies; with no rule and no anomaly it is the one
\* sentence "No high-sensitivity metadata indicators were detected.".
C7_Reasons ==
    Returned =>
        /\ result.reasons # <<>>
        /\ \/ result.matched_rules # <<>>
           \/ result.anomalies # <<>>
           \/ result.reasons =
                 <<Msg("No high-sensitivity metadata indicators were detected.")>>
        /\ result.matched_rules # <<>> \/ result.anomalies # <<>> =>
              result.reasons =
                  [i \in 1..Len(result.matched_rules) |->
                      Msg(RuleNamed(result.matched_rules[i]).reason)]
                  \o result.anomalies
        /\ \A i, j \in 1..Len(result.matched_rules) :
              i < j =>
                  (CHOOSE k \in 1..Len(rules) : rules[k].name = result.matched_rules[i])
                  < (CHOOSE k \in 1..Len(rules) : rules[k].name = result.matched_rules[j])

\* C7 witness: a call on a non-empty map that matches no rule and has no
\* anomaly.
C7_Witness ==
    /\ Returned
    /\ metadata # <<>>
    /\ result.matched_rules = <<>>
    /\ result.anomalies = <<>>
    /\ Len(result.reasons) = 1

\* C8: a returned timeline is in non-decreasing order of the parsed
\* datetimes of its events, and events of equal datetimes are in the order of
\* their fields in the input map.
C8_TimelineSortedStable == Returned => SortedStable(result.timeline, SourceMap)

\* C8 witness: a timeline of three metadata events, two of them of equal
\* datetimes, that is not in the order of the map.
C8_Witness ==
    /\ Returned
    /\ Len(result.timeline) = 3
    /\ Usable(metadata) # {}
    /\ \E i \in 1..2 : ~DtLess(ParsedOf(result.timeline[i]),
                               ParsedOf(result.timeline[i + 1]))
    /\ \E i, j \in 1..3 :
          i < j /\ PosIn(metadata, result.timeline[i])
                   > PosIn(metadata, result.timeline[j])

\* C9: when the metadata has no date-hinted field that parses and a
\* fallback map is given, the timeline is one event per fallback entry whose
\* value parses, whatever its key, labelled by the key, in the order of the
\* parsed datetimes (of the map on ties).
C9_FallbackActivation ==
    Returned /\ Usable(metadata) = {} /\ fallback_timestamps.isdict =>
        LET items == fallback_timestamps.items
        IN  /\ Len(result.timeline) = Cardinality(Parseable(items))
            /\ \A i \in Parseable(items) :
                  Cardinality({k \in 1..Len(result.timeline) :
                                  result.timeline[k] = EventOf(items[i])}) = 1
            /\ SortedStable(result.timeline, items)

\* C9 witness: three fallback entries parse, one under a key with no date
\* hint, and come out in another order than the map's.
C9_Witness ==
    /\ Returned
    /\ metadata # <<>>
    /\ Usable(metadata) = {}
    /\ fallback_timestamps.isdict
    /\ Len(result.timeline) = 3
    /\ \E k \in 1..3 : ~AnyIn(key_hints, lower(result.timeline[k].event))
    /\ result.timeline[1] = EventOf(fallback_timestamps.items[3])

\* C10 as stated: when the metadata has a key with a date hint, no event of
\* the returned timeline comes from the fallback map.
C10_NoFallbackWhenHinted ==
    Returned /\ (\E i \in 1..Len(metadata) : HintedKey(metadata[i])) =>
        \A k \in 1..Len(result.timeline) :
            ~FromMap(fallback_timestamps.items, result.timeline[k])

\* C10 amended: when the metadata has a key with a date hint whose value
\* parses as a datetime, no event of the returned timeline comes from the
\* fallback map.
C10_NoFallbackWhenUsable ==
    Returned /\ Usable(metadata) # {} =>
        \A k \in 1..Len(result.timeline) :
            /\ ~FromMap(fallback_timestamps.items, result.timeline[k])
            /\ FromMap(metadata, result.timeline[k])

\* C10 witness: the metadata has a date-hinted field that parses, a fallback
\* map with parseable entries is given, and the timeline is the metadata's.
C10_Witness ==
    /\ Returned
    /\ Usable(metadata) # {}
    /\ Parseable(fallback_timestamps.items) # {}
    /\ Len(result.timeline) = Cardinality(Usable(metadata))

\* The caller's last step was a call of analyze_batch that returned.
Batched == op = "batch" /\ summary.status = "returned"

\* The indices of the results of a level.
OfLevel(results, level) ==
    {i \in 1..Len(results) : results[i].risk_level = level}

\* The folder an entry is counted in: the dirname of its file_path, or
\* "Unknown" when it has none.
DirOf(entry) ==
    LET path == IF entry.has_path /\ entry.file_path.kind = "str"
                THEN entry.file_path.s ELSE <<>>
    IN  IF path = <<>> THEN <<"U","n","k","n","o","w","n">> ELSE dirname(path)

InFolder(batch, d) == {i \in 1..Len(batch) : DirOf(batch[i]) = d}

RECURSIVE SumFolders(_, _, _)
SumFolders(folders, keys, level) ==
    IF keys = {} THEN 0
    ELSE LET d == CHOOSE d \in keys : TRUE
         IN  folders[d][level] + SumFolders(folders, keys \ {d}, level)

\* What analyze_file gives for an entry, called with no fallback timestamps.
AloneOf(entry) ==
    analyze_metadata(IF entry.has_metadata THEN entry.metadata ELSE Dict(<<>>),
                     IF entry.has_path THEN entry.file_path ELSE NoneVal,
                     NoFallback)

\* C11: for every returned batch, the empty one included, risk_counts has
\* the three level keys, each counting the results of its level, and their
\* sum, total_files, len(results) and the number of entries are equal.
C11_BatchCounts ==
    Batched =>
        /\ DOMAIN summary.risk_counts = LevelNames
        /\ \A l \in LevelNames :
              summary.risk_counts[l] = Cardinality(OfLevel(summary.results, l))
        /\ summary.risk_counts["LOW"] + summary.risk_counts["MEDIUM"]
              + summary.risk_counts["HIGH"] = summary.total_files
        /\ summary.total_files = Len(summary.results)
        /\ Len(summary.results) = Len(entries)

\* C11 witness: a batch of three entries, two of them LOW and none MEDIUM.
C11_Witness ==
    /\ Batched
    /\ Len(entries) = 3
    /\ summary.risk_counts = [LOW |-> 2, MEDIUM |-> 0, HIGH |-> 1]

\* C12: folders has one key per distinct dirname(file_path) of the entries
\* ("Unknown" for an empty file_path); a folder's total is the number of its
\* entries and the sum of its three level counters, and the level counters
\* of all folders add up to risk_counts.
C12_Folders ==
    Batched =>
        /\ DOMAIN summary.folders = {DirOf(entries[i]) : i \in 1..Len(entries)}
        /\ \A d \in DOMAIN summary.folders :
              /\ summary.folders[d].total = Cardinality(InFolder(entries, d))
              /\ summary.folders[d].total =
                    summary.folders[d]["LOW"] + summary.folders[d]["MEDIUM"]
                    + summary.folders[d]["HIGH"]
        /\ \A l \in LevelNames :
              SumFolders(summary.folders, DOMAIN summary.folders, l)
                  = summary.risk_counts[l]

\* C12 witness: three entries in two folders, one of them "Unknown" for an
\* entry of empty file_path, the other holding two files of different levels.
C12_Witness ==
    /\ Batched
    /\ Len(entries) = 3
    /\ DOMAIN summary.folders = {<<"U","n","k","n","o","w","n">>, <<"A">>}
    /\ \E i \in 1..3 : entries[i].has_path /\ entries[i].file_path = StrVal(<<>>)
    /\ summary.folders[<<"A">>] = [total |-> 2, LOW |-> 1, MEDIUM |-> 0, HIGH |-> 1]

\* C13: highest_risk of a non-empty returned batch is the result of the
\* greatest risk_score, the earliest one in input order among those of that
\* score; of the empty batch it is None.
C13_HighestRisk ==
    Batched =>
        IF entries = <<>> THEN summary.highest_risk = None
        ELSE \E i \in 1..Len(summary.results) :
                /\ summary.highest_risk = summary.results[i]
                /\ \A j \in 1..Len(summary.results) :
                      summary.results[j].risk_score <= summary.results[i].risk_score
                /\ \A j \in 1..(i - 1) :
                      summary.results[j].risk_score < summary.results[i].risk_score

\* C13 witness: the second and third results share the greatest score and
\* differ, and highest_risk is the second.
C13_Witness ==
    /\ Batched
    /\ Len(summary.results) = 3
    /\ summary.results[1].risk_score < summary.results[2].risk_score
    /\ summary.results[2].risk_score = summary.results[3].risk_score
    /\ summary.results[2] # summary.results[3]
    /\ summary.highest_risk = summary.results[2]

\* C14: results of a returned batch has, at each index, what analyze_file
\* gives for the entry of that index called with no fallback timestamps, an
\* entry of no metadata key being analysed as the empty map; no entry is
\* dropped, merged or moved.
C14_ResultsPerEntry ==
    Batched =>
        /\ Len(summary.results) = Len(entries)
        /\ \A i \in 1..Len(entries) : summary.results[i] = AloneOf(entries[i])

\* C14 witness: a batch holding the same entry twice and an entry that has
\* no metadata key.
C14_Witness ==
    /\ Batched
    /\ Len(entries) = 3
    /\ entries[1] = entries[3]
    /\ ~entries[2].has_metadata
    /\ summary.results[1] = summary.results[3]
    /\ summary.results[2].matched_rules = <<>>

\* What the call of thread t gives when it runs alone.
AloneResult(t) ==
    IF threads.args[t].call = "batch" THEN analyze_batch(threads.args[t].entries)
    ELSE analyze_metadata(threads.args[t].metadata, threads.args[t].file_path,
                          threads.args[t].fallback_timestamps)

\* C15: however the steps of the calls of the threads interleave, a call
\* that is over has given what it gives when run alone.
C15_ThreadsAsAlone ==
    \A t \in Threads : threads.pc[t] = "done" => threads.returned[t] = AloneResult(t)

\* C15 witness: two calls with different arguments have run at once, both
\* are over, one of them an analyze_batch call, and their results differ.
C15_Witness ==
    /\ threads.overlapped
    /\ \A t \in Threads : threads.pc[t] = "done"
    /\ threads.args[1].call = "file"
    /\ threads.args[2].call = "batch"
    /\ threads.returned[1].status = "returned"
    /\ threads.returned[2].status = "returned"
    /\ threads.returned[1] = AloneResult(1)
    /\ threads.returned[2] = AloneResult(2)

\* The built-in rules whose checker holds for a map, in rule order.
RECURSIVE HoldingFrom(_, _)
HoldingFrom(m, k) ==
    IF k > Len(rules) THEN <<>>
    ELSE (IF checker(rules[k], m) THEN <<rules[k].name>> ELSE <<>>)
         \o HoldingFrom(m, k + 1)

IsMismatch(msg) ==
    msg.text = "Timestamp mismatch: '{curr_event}' occurs before '{prev_event}'."

C17_RaisingRuleSkipped ==
    Called /\ (\E k \in 1..Len(self_rules) : checker_raises(self_rules[k], metadata)) =>
        /\ Returned
        /\ result.matched_rules = HoldingFrom(metadata, 1)
        /\ result.risk_score =
              Min(100, ScoreOfNames(result.matched_rules)
                       + (IF result.anomalies # <<>> THEN 20 ELSE 0))

\* C18: a metadata argument that is no map gives, for every file_path and
\* fallback map and without raising, the assessment of the empty map: no
\* matched rule, no anomaly, score 0, level LOW and the fallback sentence.
C18_NonMapAsEmpty ==
    op = "nonmap" =>
        /\ Returned
        /\ result = analyze_metadata(Dict(<<>>), file_path, fallback_timestamps)
        /\ result.matched_rules = <<>>
        /\ result.anomalies = <<>>
        /\ result.risk_score = 0
        /\ result.risk_level = "LOW"
        /\ result.reasons =
              <<Msg("No high-sensitivity metadata indicators were detected.")>>

\* C19: a returned assessment in which all five rules match (scenario A)
\* has a risk_score of 60 or more, the level MEDIUM or HIGH, reasons that
\* are not empty and a timeline list of event_count events.
C19_FiveRulesNotLow ==
    Returned /\ Len(result.matched_rules) = Len(rules) =>
        /\ result.risk_score >= 60
        /\ result.risk_level \in {"MEDIUM", "HIGH"}
        /\ result.reasons # <<>>
        /\ result.event_count = Len(result.timeline)

\* C19 witness: the assessment of scenario A.
C19_Witness ==
    /\ Returned
    /\ metadata = ScenarioA
    /\ Len(result.matched_rules) = 5
    /\ result.risk_level = "HIGH"
    /\ Len(result.reasons) = 6

\* C20: the assessment of scenario A has a timestamp-mismatch anomaly among
\* its anomalies and its reasons.
C20_ScenarioAMismatch ==
    Called /\ metadata = ScenarioA =>
        /\ Returned
        /\ \E i \in 1..Len(result.anomalies) : IsMismatch(result.anomalies[i])
        /\ \E i \in 1..Len(result.reasons) : IsMismatch(result.reasons[i])

\* The keywords of all the rules.
AllKeywords ==
    {gps_keys[k] : k \in 1..Len(gps_keys)}
    \cup UNION {{rules[r].keywords[k] : k \in 1..Len(rules[r].keywords)} :
                   r \in 1..Len(rules)}

\* No key and no value of the map holds a rule keyword, and no value holds
\* a pair of raw coordinates.
NoIndicator(m) ==
    \A i \in 1..Len(m) :
        /\ \A kw \in AllKeywords :
              /\ ~Contains(kw, lower(m[i][1]))
              /\ ~Contains(kw, lower(str(m[i][2])))
        /\ ~search(coord_pattern, str(m[i][2]))

\* C21: the returned assessment of a map in which no key and no value holds
\* a rule keyword and no value matches the coordinate pattern (scenario B)
\* has no matched rule, a risk_score below 30 and the level LOW.
C21_NoIndicatorLow ==
    Returned /\ NoIndicator(metadata) =>
        /\ result.matched_rules = <<>>
        /\ result.risk_score < 30
        /\ result.risk_level = "LOW"

\* C21 witness: the assessment of scenario B.
C21_Witness ==
    /\ Returned
    /\ metadata = ScenarioB
    /\ NoIndicator(metadata)
    /\ result.risk_score = 0
    /\ result.risk_level = "LOW"

\* C22: no anomaly and no reason of a returned assessment, of a single call
\* or of a batch, is a 'Timestamp mismatch' sentence.
C22_NoMismatchFromAnalyze ==
    /\ Returned =>
          /\ \A i \in 1..Len(result.anomalies) : ~IsMismatch(result.anomalies[i])
          /\ \A i \in 1..Len(result.reasons) : ~IsMismatch(result.reasons[i])
    /\ Batched =>
          \A k \in 1..Len(summary.results) :
              \A i \in 1..Len(summary.results[k].anomalies) :
                  ~IsMismatch(summary.results[k].anomalies[i])

\* C22 witness: a map whose first date-hinted field is later than its
\* second gives a timeline of two events, the later field last.
C22_Witness ==
    /\ Returned
    /\ Len(metadata) = 2
    /\ Usable(metadata) = {1, 2}
    /\ DtLess(parse_datetime(metadata[2][2]), parse_datetime(metadata[1][2]))
    /\ result.timeline = <<EventOf(metadata[2]), EventOf(metadata[1])>>
    /\ result.anomalies = <<>>

\* The caller's last step was a direct call of detect_anomalies that
\* returned.
Detected == op = "detect" /\ ~direct.outcome.raised

\* The events of a timeline whose timestamp parses.
ParsedIn(tl) == {i \in 1..Len(tl) : ParsedOf(tl[i]).ok}

\* The parsed event that comes before the parsed event b.
Before(tl, b) ==
    CHOOSE a \in ParsedIn(tl) :
        a < b /\ \A c \in ParsedIn(tl) : c < b => c <= a

\* The parsed events that are strictly earlier than the parsed event before
\* them.
OutOfOrder(tl) ==
    {b \in ParsedIn(tl) :
        /\ \E a \in ParsedIn(tl) : a < b
        /\ DtLess(ParsedOf(tl[b]), ParsedOf(tl[Before(tl, b)]))}

\* C23: a direct call of detect_anomalies that returns emits at most one
\* 'Timestamp mismatch' sentence; events that do not parse are skipped, and
\* the sentence names the first parsed event that is strictly earlier than
\* the parsed event before it, and that event; there is none when no parsed
\* event is, as with equal datetimes or fewer than two events.
C23_FirstMismatch ==
    Detected =>
        LET tl   == direct.timeline
            mism == SelectSeq(direct.outcome.anomalies, IsMismatch)
            b0   == CHOOSE b \in OutOfOrder(tl) : \A c \in OutOfOrder(tl) : b <= c
        IN  IF OutOfOrder(tl) = {} THEN mism = <<>>
            ELSE mism = <<MismatchMsg(tl[b0].event, tl[Before(tl, b0)].event)>>

\* C23 witness: a timeline of three events whose second does not parse and
\* whose third is earlier than its first; the one mismatch names the third
\* and the first.
C23_Witness ==
    /\ Detected
    /\ Len(direct.timeline) = 3
    /\ ParsedIn(direct.timeline) = {1, 3}
    /\ OutOfOrder(direct.timeline) = {3}
    /\ SelectSeq(direct.outcome.anomalies, IsMismatch)
          = <<MismatchMsg(direct.timeline[3].event, direct.timeline[1].event)>>

\* The maximal delimiter-free runs of a text.
Runs(t) ==
    {SubSeq(t, p[1], p[2]) :
        p \in {q \in (1..Len(t)) \X (1..Len(t)) :
                  /\ q[1] <= q[2]
                  /\ \A k \in q[1]..q[2] : t[k] \notin Delimiters
                  /\ q[1] = 1 \/ t[q[1] - 1] \in Delimiters
                  /\ q[2] = Len(t) \/ t[q[2] + 1] \in Delimiters}}

\* The fields whose key contains software, application, producer or editor.
ChainFields(m) == {i \in 1..Len(m) : AnyIn(chain_tokens, lower(m[i][1]))}

\* The tokens of one field: its runs trimmed and lower-cased, blanks left out.
TokensOf(field) == {lower(strip(r)) : r \in Runs(str(field[2]))} \ {<<>>}

\* The tokens of all the chain fields, pooled.
ChainTokenSet(m) == UNION {TokensOf(m[i]) : i \in ChainFields(m)}

\* How many times a message is in a list of anomalies.
Times(anomalies, msg) ==
    Cardinality({i \in 1..Len(anomalies) : anomalies[i] = msg})

ChainMsg == Msg("Multiple editing chain detected from software metadata.")

\* C24: a call of detect_anomalies that returns holds the editing chain
\* message once when the chain fields' values, split on runs of > ; | , /,
\* trimmed, lower-cased and without blanks, hold at least 2 distinct tokens
\* over all the fields together, and does not hold it otherwise.
C24_EditingChain ==
    Detected =>
        Times(direct.outcome.anomalies, ChainMsg)
            = IF Cardinality(ChainTokenSet(direct.metadata)) >= 2 THEN 1 ELSE 0

\* C24 witness: three chain fields of one token each, two of them differing
\* in case and a trailing space only; the pooled tokens are two and the
\* message is there once.
C24_Witness ==
    /\ Detected
    /\ Cardinality(ChainFields(direct.metadata)) = 3
    /\ \A i \in ChainFields(direct.metadata) :
           Cardinality(TokensOf(direct.metadata[i])) = 1
    /\ Cardinality(ChainTokenSet(direct.metadata)) = 2
    /\ Times(direct.outcome.anomalies, ChainMsg) = 1

\* The keys that contain xmp, iptc, exif, makernote, thumbnail or history.
BlockKeys(m) ==
    {i \in 1..Len(m) :
        \E tok \in Range(block_tokens) : Contains(tok, lower(m[i][1]))}

\* The tokens one key contains.
TokensIn(key) == {tok \in Range(block_tokens) : Contains(tok, lower(key))}

BlocksMsg == Msg("Possible overwritten/stacked metadata blocks detected.")

\* C25: a call of detect_anomalies that returns holds the stacked blocks
\* message once when at least 3 keys of the metadata contain one of the six
\* tokens in any case, and does not hold it otherwise; values are not
\* looked at and a key that contains several tokens is one key.
C25_StackedBlocks ==
    Detected =>
        Times(direct.outcome.anomalies, BlocksMsg)
            = IF Cardinality(BlockKeys(direct.metadata)) >= 3 THEN 1 ELSE 0

\* C25 witness: exactly three block keys, one of them containing two of the
\* tokens and one with a null value; the message is there once.
C25_Witness ==
    /\ Detected
    /\ Cardinality(BlockKeys(direct.metadata)) = 3
    /\ \E i \in BlockKeys(direct.metadata) :
           Cardinality(TokensIn(direct.metadata[i][1])) = 2
    /\ \E i \in BlockKeys(direct.metadata) : direct.metadata[i][2] = NoneVal
    /\ Times(direct.outcome.anomalies, BlocksMsg) = 1

\* C26: when a date-hinted field of the metadata parses, the returned
\* timeline holds one event for each field whose key has a date hint and
\* whose value parses, and no other event: hinted fields whose value is
\* null, blank or no datetime are left out, fields with no hint are left
\* out even with a valid timestamp, and event_count is the length.
C26_TimelinePerField ==
    Returned /\ Usable(metadata) # {} =>
        /\ Len(result.timeline) = Cardinality(Usable(metadata))
        /\ \A i \in Usable(metadata) :
              Cardinality({k \in 1..Len(result.timeline) :
                              result.timeline[k] = EventOf(metadata[i])}) = 1
        /\ \A k \in 1..Len(result.timeline) :
              \E i \in Usable(metadata) :
                  result.timeline[k] = EventOf(metadata[i])
        /\ result.event_count = Len(result.timeline)

\* C26 witness: the metadata has a field with no hint whose value is a
\* date, hinted fields whose values are null, blank and no datetime, and
\* one hinted field that parses; the timeline is that one event.
C26_Witness ==
    /\ Returned
    /\ \E i \in 1..Len(metadata) :
           ~HintedKey(metadata[i]) /\ parse_datetime(metadata[i][2]).ok
    /\ \E i \in 1..Len(metadata) :
           HintedKey(metadata[i]) /\ metadata[i][2] = NoneVal
    /\ \E i \in 1..Len(metadata) :
           /\ HintedKey(metadata[i])
           /\ metadata[i][2] # NoneVal
           /\ strip(str(metadata[i][2])) = <<>>
    /\ \E i \in 1..Len(metadata) :
           /\ HintedKey(metadata[i])
           /\ strip(str(metadata[i][2])) # <<>>
           /\ ~parse_datetime(metadata[i][2]).ok
    /\ Cardinality(Usable(metadata)) = 1
    /\ Len(result.timeline) = 1
    /\ result.event_count = 1

FallbackSentence == Msg("No high-sensitivity metadata indicators were detected.")

\* C27: a returned assessment with an anomaly has editing_traces or
\* hidden_blocks among its matched rules, a score of at least 35 and the
\* level MEDIUM or HIGH; a LOW assessment has no anomaly; and the score is 0
\* exactly when the reasons are the fallback sentence alone.
C27_AnomalyImpliesRule ==
    Returned =>
        /\ result.anomalies # <<>> =>
              /\ \/ "editing_traces" \in Range(result.matched_rules)
                 \/ "hidden_blocks" \in Range(result.matched_rules)
              /\ result.risk_score >= 35
              /\ result.risk_level \in {"MEDIUM", "HIGH"}
        /\ result.risk_level = "LOW" => result.anomalies = <<>>
        /\ result.risk_score = 0 <=> result.reasons = <<FallbackSentence>>

\* C27 witness: an assessment with an anomaly whose only matched rule is
\* editing_traces; its score is 35, the least an anomaly allows.
C27_Witness ==
    /\ Returned
    /\ result.anomalies # <<>>
    /\ result.matched_rules = <<"editing_traces">>
    /\ result.risk_score = 35
    /\ result.risk_level = "MEDIUM"

\* The rules of a freshly constructed analyzer whose checker holds.
FreshMatched(m) == SelectSeq(rules, LAMBDA r : checker(r, m))

\* analyze_file(m, p, f) on a freshly constructed PrivacyForensicAnalyzer.
FreshAnalysis(m, p, f) ==
    with_path(analyze_built(dict_or_empty(m), FreshMatched(dict_or_empty(m)),
                            build_timeline(dict_or_empty(m), f)),
              path_text(p))

\* The caller's last step was a call of analyze_metadata, the first or a
\* later one.
CalledAgain == Called \/ op \in {"again", "after"}

Perms(n) == {f \in [1..n -> 1..n] : \A i, j \in 1..n : f[i] = f[j] => i = j}

\* A batch with its entries in the order f.
Permuted(batch, f) == [i \in 1..Len(batch) |-> batch[f[i]]]

\* The risk_score of highest_risk, None when there is no result.
TopScore(s) ==
    IF s.highest_risk = None THEN None ELSE s.highest_risk.risk_score

\* Two summaries agree on the aggregates.
SameAggregates(s, t) ==
    /\ s.status = t.status
    /\ s.total_files = t.total_files
    /\ s.risk_counts = t.risk_counts
    /\ DOMAIN s.folders = DOMAIN t.folders
    /\ \A d \in DOMAIN s.folders : s.folders[d] = t.folders[d]
    /\ TopScore(s) = TopScore(t)

\* C29: for every returned batch and every permutation of its entries,
\* analyze_batch gives the same total_files, risk_counts, counters of every
\* folder and risk_score of highest_risk.
C29_BatchOrderIndependent ==
    Batched =>
        \A f \in Perms(Len(entries)) :
            SameAggregates(summary, analyze_batch(Permuted(entries, f)))

\* C29 witness: a batch of three entries in two folders, two of them tied
\* for the highest score; a permutation gives other results and another
\* highest_risk entry, with the same aggregates.
C29_Witness ==
    /\ Batched
    /\ Len(entries) = 3
    /\ Cardinality(DOMAIN summary.folders) = 2
    /\ \E f \in Perms(3) :
          /\ analyze_batch(Permuted(entries, f)).results # summary.results
          /\ analyze_batch(Permuted(entries, f)).highest_risk
                # summary.highest_risk
          /\ SameAggregates(summary, analyze_batch(Permuted(entries, f)))

\* Two assessments agree on all but timeline and event_count.
SameButTimeline(a, b) ==
    /\ a.risk_score = b.risk_score
    /\ a.risk_level = b.risk_level
    /\ a.matched_rules = b.matched_rules
    /\ a.anomalies = b.anomalies
    /\ a.reasons = b.reasons

\* An assessment agrees with another call's outcome when that call returned.
AgreeIfReturned(a, b) == b.status = "returned" => SameButTimeline(a, b)

\* The last call made with another fallback map.
WithFallback(fb) == analyze_metadata(passed.metadata, file_path, fb)

\* C30: a call that returned and the same call with any other fallback map,
\* when that returns too, agree on risk_score, risk_level, matched_rules,
\* anomalies and reasons.
C30_FallbackOnlyTimeline ==
    CalledAgain /\ Returned =>
        \A fb \in FallbackChoices : AgreeIfReturned(result, WithFallback(fb))

\* C30 witness: a call whose timeline is the fallback map's three events
\* and that matched a rule; with no fallback map the timeline is empty and
\* the rest is the same.
C30_Witness ==
    /\ Called
    /\ Returned
    /\ fallback_timestamps.isdict
    /\ Len(result.timeline) = 3
    /\ result.matched_rules # <<>>
    /\ WithFallback(NoFallback).status = "returned"
    /\ WithFallback(NoFallback).timeline = <<>>
    /\ SameButTimeline(result, WithFallback(NoFallback))

=============================================================================
